---- MODULE Spec2Model ----
(***************************************************************************)
(* Order-file monitoring and submission reconciliation of astrum:          *)
(* the fingerprint tracker (lib/filehash), the submit handler and the      *)
(* startup rescan (app_monitoring.go), the watch coordinator and the       *)
(* session watcher (lib/monitor).                                          *)
(*                                                                         *)
(* Go strings are modelled as sequences of characters, so that key         *)
(* construction (concatenation with a separator, decimal formatting of     *)
(* the year) is computed the way the code computes it.  The empty string   *)
(* "" is the empty sequence <<>>.                                          *)
(***************************************************************************)
EXTENDS Integers, Sequences, FiniteSets, TLC

VARIABLES
    \* ---- application and tracker state (app_monitoring.go, tracker.go)
    hashes,          \* Tracker.hashes: compositeKey -> sha256 hex string
    db,              \* database bucket BucketFileHashes: key -> hash
    clients,         \* App.clients: set of server URLs with an API client
    authManagers,    \* App.authManagers: set of server URLs with an auth manager
    shuttingDown,    \* App.shuttingDown
    onOrderSubmitted,\* monitor.Manager.onOrderSubmitted is set (non-nil)
    attempts,        \* the goroutines running processOrderFile / rescan
    fingerprints,    \* history: (connection, session, year) -> last hash stored
    \* ---- watch coordinator (monitor.Manager)
    registry,        \* Manager.watchers: sessionID -> watcher id
    pool,            \* every SessionWatcher ever constructed
    dirs,            \* the file system: which game directories exist, and as what
    wanted,          \* history: ids whose last successful Watch was not undone
    watchRet,        \* history: what the last coordinator call returned
    \* ---- one session watcher and its debounce timer (monitor.SessionWatcher)
    now,             \* the clock, in ticks
    stopped,         \* SessionWatcher.stopped
    stopCh,          \* SessionWatcher.stopCh: "open" or "closed"
    stopCalls,       \* history: how many calls of Stop have returned
    debounceTimer,   \* SessionWatcher.debounceTimer: 0 = nil, else the timer's id
    timers,          \* every time.Timer created by handleEvent
    loop,            \* the eventLoop goroutine: "running" or "exited"
    lastEvent,       \* history: the event handleEvent was last called with
    cycles,          \* history: the validate/submit cycles, in the order they ran
    \* ---- the fingerprint store used directly (filehash.Tracker) and the disk
    files,           \* the file system: path -> contents of the file
    tracked,         \* history: (connection, session, path) -> fingerprint set last
    pure,            \* history: only successful WriteFileIfChanged calls on the key
                     \* have touched the key and its file so far
    clean,           \* history: no durable write failed since the store was opened
    failures,        \* how many I/O operations have failed
    lastCall,        \* history: the last Tracker call and what it returned
    \* ---- one token manager (auth.Manager) and its api.Client
    clock,           \* the clock, in ticks of 30 seconds
    token,           \* Client.token: 0 = "", else the n-th token the server issued
    tokenExp,        \* Client.tokenExp
    connected,       \* Manager.connected
    userInfo,        \* Manager.userInfo is set (non-nil)
    cancelled,       \* Manager.ctx is cancelled
    refreshLoop,     \* the tokenRefreshLoop goroutine: where it is
    nextTick,        \* when the loop's ticker fires next
    connectCall,     \* the call of Manager.Connect: where it is
    disconnectCall,  \* the call of Manager.Disconnect: where it is
    onConnectionStateChange, \* the callback is set (non-nil)
    onTokenRefreshed,        \* the callback is set (non-nil)
    trace,           \* history: calls, returns, requests and notifications, in order
    \* ---- Tracker calls that run concurrently
    calls,           \* calls[i]: the i-th call, between its map update and its durable write
    \* ---- one notification channel (notification.Manager, api.NotificationClient)
    nc,              \* NotificationClient: conn, connected, done, reconnecting, onError
    nm,              \* notification.Manager: connected, token, stopReconnect, stopPolling
    socks,           \* the network: socks[c] is the state of the c-th connection dialled
    readers,         \* readers[r]: the readLoop goroutine started by the r-th dial
    chans,           \* every channel made for Manager.stopReconnect: "open" or "closed"
    loops,           \* loops[l]: the l-th reconnectLoop goroutine started
    poll,            \* the pollLoop goroutine: "none", "running" or "exited"
    reconnectCall,   \* the call of Manager.Reconnect: where it is
    disconnectNotif, \* the call of Manager.Disconnect: where it is
    frames,          \* how many frames the server has sent
    late,            \* history: the callbacks invoked after Disconnect had returned
    lastPoll,        \* history: the last poll tick and what it saw
    lastChange,      \* history: the last connection-change value delivered
    \* ---- the sessions monitored for one server (App, app_monitoring.go)
    checks,          \* checks[i]: the i-th checkAndStartMonitoring goroutine
    quitCall,        \* the call of App.QuitSession: where it is, and for which session
    ended,           \* history: session -> "quit" or "deleted" once that was handled
    orderMonitors,   \* App.orderMonitors holds a coordinator for the server
    appDisconnect,   \* the call of App.Disconnect: where it is
    \* ---- the coordinator lock and the goroutines that call the coordinator
    mMu,             \* Manager.mu: the goroutine holding it for writing, and the readers
    gs,              \* gs[g]: goroutine g, a submitWrapper or a caller of the coordinator
    \* ---- the teardown of one connected server (App.Disconnect, App.RemoveServer)
    aMu,             \* App.mu: "free", or the goroutine that holds it across its calls
    teardown,        \* the teardown call: which method, and where it is
    pollLoop,        \* the pollLoop goroutine of the notification manager
    refresher,       \* the tokenRefreshLoop goroutine of the token manager
    \* ---- one notification channel under a sequence of calls (Manager.Connect, Reconnect, Disconnect)
    channelCall,     \* the call in progress on the channel, and how many were made
    panicked,        \* a closed channel was closed again: the process has panicked
    \* ---- the files of the local player of one session (app_monitoring.go, app_turns.go)
    roster,          \* session.Players as GetSession returned it; <<>> before
    watched,         \* WatchedSession.PlayerOrder of the watcher started; -1 = none
    rescanned,       \* the file name the startup rescan looked for; <<>> = none
    turnFile         \* the file name saveTurnFiles wrote the turn to; <<>> = none

submitVars ==
    <<hashes, db, clients, authManagers, shuttingDown, onOrderSubmitted, attempts,
      fingerprints>>
appVars == <<clients, authManagers, shuttingDown, onOrderSubmitted, attempts, fingerprints>>
coordVars == <<registry, pool, dirs, wanted, watchRet>>
trackerVars == <<files, tracked, pure, clean, failures, lastCall>>
debounceVars ==
    <<now, stopped, stopCh, stopCalls, debounceTimer, timers, loop, lastEvent, cycles>>
authVars ==
    <<clock, token, tokenExp, connected, userInfo, cancelled, refreshLoop, nextTick,
      connectCall, disconnectCall, onConnectionStateChange, onTokenRefreshed, trace>>
raceVars == <<calls>>
notifVars ==
    <<nc, nm, socks, readers, chans, loops, poll, reconnectCall, disconnectNotif, frames,
      late, lastPoll, lastChange>>
monitorVars == <<checks, quitCall, ended, orderMonitors, appDisconnect>>
lockVars == <<mMu, gs>>
teardownVars == <<aMu, teardown, pollLoop, refresher>>
channelVars == <<channelCall, panicked>>
namingVars == <<roster, watched, rescanned, turnFile>>
vars ==
    <<submitVars, coordVars, debounceVars, trackerVars, authVars, raceVars, notifVars,
      monitorVars, lockVars, teardownVars, channelVars, namingVars>>

\* what the actions of one component leave alone
outsideSubmit ==
    <<coordVars, debounceVars, trackerVars, authVars, raceVars, notifVars,
      monitorVars, lockVars, teardownVars, channelVars, namingVars>>
outsideCoord ==
    <<submitVars, debounceVars, trackerVars, authVars, raceVars, notifVars,
      monitorVars, lockVars, teardownVars, channelVars, namingVars>>
outsideDebounce ==
    <<submitVars, coordVars, trackerVars, authVars, raceVars, notifVars,
      monitorVars, lockVars, teardownVars, channelVars, namingVars>>
outsideTracker ==
    <<coordVars, debounceVars, authVars, raceVars, notifVars,
      monitorVars, lockVars, teardownVars, channelVars, namingVars>>
outsideAuth ==
    <<submitVars, coordVars, debounceVars, trackerVars, raceVars, notifVars,
      monitorVars, lockVars, teardownVars, channelVars, namingVars>>
outsideRace ==
    <<appVars, coordVars, debounceVars, authVars, notifVars, files, tracked, pure, lastCall,
      monitorVars, lockVars, teardownVars, channelVars, namingVars>>
outsideNotif ==
    <<submitVars, coordVars, debounceVars, trackerVars, authVars, raceVars,
      monitorVars, lockVars, teardownVars, channelVars, namingVars>>
\* the monitoring of sessions acts on the coordinator as well
outsideMonitor ==
    <<submitVars, debounceVars, trackerVars, authVars, raceVars, notifVars, lockVars,
      teardownVars, channelVars, namingVars>>
\* so do the goroutines that take the coordinator's lock
outsideLock ==
    <<submitVars, debounceVars, trackerVars, authVars, raceVars, notifVars, monitorVars,
      teardownVars, channelVars, namingVars>>
outsideTeardown ==
    <<submitVars, coordVars, debounceVars, trackerVars, authVars, raceVars, notifVars,
      monitorVars, lockVars, channelVars, namingVars>>
\* concurrent WriteFileIfChanged calls write the files as well
outsideWriteRace ==
    <<appVars, coordVars, debounceVars, authVars, notifVars, tracked, pure, lastCall,
      monitorVars, lockVars, teardownVars, channelVars, namingVars>>
\* the calls made on one notification channel act on the channel as well
outsideChannel ==
    <<submitVars, coordVars, debounceVars, trackerVars, authVars, raceVars,
      monitorVars, lockVars, teardownVars, namingVars>>
\* the naming of the local player's files
outsideNaming ==
    <<submitVars, coordVars, debounceVars, trackerVars, authVars, raceVars, notifVars,
      monitorVars, lockVars, teardownVars, channelVars>>

(***************************************************************************)
(* Bounds and input sets                                                   *)
(***************************************************************************)
MaxAttempts == 2
\* how many SessionWatcher objects the coordinator may construct in a run
MaxWatchers == 3
\* how many debounce timers one watcher creates, and how far the clock runs
MaxTimers == 3
\* how many I/O operations (durable writes, file writes) fail in a run
MaxFailures == 1
MaxTime == 8
\* how many calls of SessionWatcher.Stop are made
MaxStopCalls == 2
\* how many Tracker calls run concurrently
MaxCalls == 2

Attempts == 1..MaxAttempts
Servers == {<<"s", "1">>}
Sessions == {<<"A">>}
Years == {2400, 2401}
Contents == {"B1", "B2"}
\* the session ids the coordinator is asked to watch
WatchIds == {<<"A">>, <<"B">>}

(***************************************************************************)
(* lib/filehash/tracker.go                                                 *)
(***************************************************************************)
KeySeparator == "NUL"

RECURSIVE Decimal(_)
\* fmt.Sprintf("%d", n) for n >= 0
Decimal(n) ==
    IF n < 10 THEN <<CASE n = 0 -> "0" [] n = 1 -> "1" [] n = 2 -> "2" [] n = 3 -> "3"
                       [] n = 4 -> "4" [] n = 5 -> "5" [] n = 6 -> "6" [] n = 7 -> "7"
                       [] n = 8 -> "8" [] n = 9 -> "9">>
    ELSE Decimal(n \div 10) \o Decimal(n % 10)

\* a variant of OrderKey that leaves the year out of the key
OrderKeyNoYear(year) == <<"o", "r", "d", "e", "r", ":">>

\* orderKey := fmt.Sprintf("order:%d", year)
OrderKey(year) == <<"o", "r", "d", "e", "r", ":">> \o Decimal(year)

makeKey(serverURL, sessionID, filePath) ==
    serverURL \o <<KeySeparator>> \o sessionID \o <<KeySeparator>> \o filePath

\* SHA-256 is modelled as a collision-free digest: a non-empty hex string
\* that determines the content it was computed from.
ComputeHash(data) == <<"sha256:", data>>

\* t.hashes[key]: a Go map read, the zero value "" when the key is absent
GetHash(h, serverURL, sessionID, filePath) ==
    LET key == makeKey(serverURL, sessionID, filePath)
    IN  IF key \in DOMAIN h THEN h[key] ELSE <<>>

\* t.hashes[key] = hash (also the effect of db.Set on the bucket)
MapSet(h, key, hash) ==
    [k \in DOMAIN h \cup {key} |-> IF k = key THEN hash ELSE h[k]]

(***************************************************************************)
(* Submission attempts: one record per goroutine that runs                 *)
(* SessionWatcher.processOrderFile (origin "watcher") or                   *)
(* App.rescanAndUploadPendingOrders (origin "rescan").  log is the         *)
(* history of what the goroutine did: server calls, tracker writes,        *)
(* the handler's return, the coordinator callback, events emitted to UI.   *)
(***************************************************************************)
IdleAttempt ==
    [origin |-> "none", pc |-> "idle", srv |-> <<>>, sess |-> <<>>, year |-> 0,
     data |-> "", currentHash |-> <<>>, storedHash |-> <<>>, hadHashBefore |-> FALSE,
     fpAtRead |-> <<>>, class |-> "none", err |-> "nil", log |-> <<>>]

\* one thing a goroutine did, with the arguments it passed; val is the
\* server's answer (GetLatestTurn: the year, 0 for an error; SubmitTurn:
\* 1 for success, 0 for an error) or the callback's success flag (1 / 0)
Entry(op, a, val) ==
    [op |-> op, srv |-> a.srv, sess |-> a.sess, year |-> a.year, hash |-> a.currentHash,
     err |-> a.err, val |-> val]

Logged(a, op) == \E k \in 1..Len(a.log) : a.log[k].op = op
Count(a, op) == Cardinality({k \in 1..Len(a.log) : a.log[k].op = op})

\* where control goes when the submit handler returns
AfterHandler(a) == IF a.origin = "watcher" THEN "callback" ELSE "rescanResult"

Return(a, class, err) ==
    LET b == [a EXCEPT !.class = class, !.err = err]
    IN  [b EXCEPT !.pc = AfterHandler(a), !.log = Append(a.log, Entry("return", b, 0))]

CanStart(i) ==
    /\ attempts[i].pc = "idle"
    /\ i > 1 => attempts[i - 1].pc # "idle"

(***************************************************************************)
(* SessionWatcher.processOrderFile, from the orderHandler call on: the     *)
(* debounce timer of the watcher of (srv, sess) fired and the watcher is   *)
(* not stopped.  The validator (createOrderHandler) fails, or yields the   *)
(* year and the bytes of the file.                                         *)
(***************************************************************************)
ProcessOrderFile(i, srv, sess) ==
    /\ CanStart(i)
    /\ \/ \E reason \in {"parse", "notSubmitted", "read"} :
            attempts' = [attempts EXCEPT ![i] =
                [IdleAttempt EXCEPT !.origin = "watcher", !.pc = "done",
                                    !.srv = srv, !.sess = sess]]
       \/ \E year \in Years, data \in Contents :
            attempts' = [attempts EXCEPT ![i] =
                [IdleAttempt EXCEPT !.origin = "watcher", !.pc = "getHash",
                                    !.srv = srv, !.sess = sess,
                                    !.year = year, !.data = data]]
    /\ UNCHANGED <<hashes, db, clients, authManagers, shuttingDown, onOrderSubmitted, fingerprints,
                   outsideSubmit>>

(***************************************************************************)
(* rescanAndUploadPendingOrders up to the validator: no file, unreadable,  *)
(* unparsable or not submitted ends the rescan; otherwise the year and     *)
(* the bytes are those of the file.                                        *)
(***************************************************************************)
RescanRead(i, srv, sess) ==
    /\ CanStart(i)
    /\ \/ \E reason \in {"notExist", "read", "parse", "notSubmitted"} :
            attempts' = [attempts EXCEPT ![i] =
                [IdleAttempt EXCEPT !.origin = "rescan", !.pc = "done",
                                    !.srv = srv, !.sess = sess]]
       \/ \E year \in Years, data \in Contents :
            attempts' = [attempts EXCEPT ![i] =
                [IdleAttempt EXCEPT !.origin = "rescan", !.pc = "hadHash",
                                    !.srv = srv, !.sess = sess,
                                    !.year = year, !.data = data]]
    /\ UNCHANGED <<hashes, db, clients, authManagers, shuttingDown, onOrderSubmitted, fingerprints,
                   outsideSubmit>>

\* a variant of RescanHadHash that ends the rescan when a hash is stored
RescanHadHashReturnsEarly(i) ==
    LET a == attempts[i]
        had == GetHash(hashes, a.srv, a.sess, OrderKey(a.year)) # <<>>
    IN  /\ a.pc = "hadHash"
        /\ attempts' = [attempts EXCEPT ![i] =
              [a EXCEPT !.pc = IF had THEN "done" ELSE "getHash", !.hadHashBefore = had]]
        /\ UNCHANGED <<hashes, db, clients, authManagers, shuttingDown, onOrderSubmitted, fingerprints,
                       outsideSubmit>>

\* hadHashBefore := a.fileHashTracker.GetHash(serverURL, sessionID, orderKey) != ""
RescanHadHash(i) ==
    LET a == attempts[i]
    IN  /\ a.pc = "hadHash"
        /\ attempts' = [attempts EXCEPT ![i] =
              [a EXCEPT !.pc = "getHash",
                        !.hadHashBefore =
                            (GetHash(hashes, a.srv, a.sess, OrderKey(a.year)) # <<>>)]]
        /\ UNCHANGED <<hashes, db, clients, authManagers, shuttingDown, onOrderSubmitted, fingerprints,
                       outsideSubmit>>

(***************************************************************************)
(* createSubmitHandler (app_monitoring.go:304-380), one action per access  *)
(* to shared state: the tracker, the application's maps, the server.       *)
(***************************************************************************)
\* the decision of lines 311-340 on the stored and the current hash
Classify(storedHash, currentHash) ==
    IF storedHash # <<>>
    THEN IF storedHash = currentHash THEN "Skip" ELSE "Conflict"
    ELSE "NewUpload"

\* lines 307-319: hash the bytes, read the stored hash, decide
SubmitGetHash(i) ==
    LET a == attempts[i]
        currentHash == ComputeHash(a.data)
        storedHash == GetHash(hashes, a.srv, a.sess, OrderKey(a.year))
        class == Classify(storedHash, currentHash)
        b == [a EXCEPT !.currentHash = currentHash, !.storedHash = storedHash,
                       !.class = class,
                       !.fpAtRead = fingerprints[<<a.srv, a.sess, a.year>>]]
    IN  /\ a.pc = "getHash"
        /\ attempts' = [attempts EXCEPT ![i] =
              CASE class = "Skip" -> Return(b, class, "nil")
                [] class = "Conflict" -> [b EXCEPT !.pc = "conflict"]
                [] OTHER -> [b EXCEPT !.pc = "lookup"]]
        /\ UNCHANGED <<hashes, db, clients, authManagers, shuttingDown, onOrderSubmitted, fingerprints,
                       outsideSubmit>>

\* a variant of SubmitConflict that takes the changed file as the new truth
SubmitConflictOverwrites(i) ==
    LET a == attempts[i]
        key == makeKey(a.srv, a.sess, OrderKey(a.year))
    IN  /\ a.pc = "conflict"
        /\ hashes' = MapSet(hashes, key, a.currentHash)
        /\ attempts' = [attempts EXCEPT ![i] = Return(a, a.class, "conflict")]
        /\ UNCHANGED <<db, clients, authManagers, shuttingDown, onOrderSubmitted, fingerprints,
                       outsideSubmit>>

\* lines 321-337: the conflict event, unless shutting down, and the error
SubmitConflict(i) ==
    LET a == attempts[i]
        b == IF shuttingDown THEN a
             ELSE [a EXCEPT !.log = Append(a.log, Entry("order:conflict", a, 0))]
    IN  /\ a.pc = "conflict"
        /\ attempts' = [attempts EXCEPT ![i] = Return(b, a.class, "conflict")]
        /\ UNCHANGED <<hashes, db, clients, authManagers, shuttingDown, onOrderSubmitted, fingerprints,
                       outsideSubmit>>

\* lines 341-348: the client and the auth manager of the server
SubmitLookupClient(i) ==
    LET a == attempts[i]
        ok == a.srv \in clients /\ a.srv \in authManagers
        b == [a EXCEPT !.log = Append(a.log, Entry("lookup", a, IF ok THEN 1 ELSE 0))]
    IN  /\ a.pc = "lookup"
        /\ attempts' = [attempts EXCEPT ![i] =
              IF ok THEN [b EXCEPT !.pc = "latest"]
              ELSE Return(b, a.class, "notConnected")]
        /\ UNCHANGED <<hashes, db, clients, authManagers, shuttingDown, onOrderSubmitted, fingerprints,
                       outsideSubmit>>

\* a variant of SubmitGetLatestTurn that does not compare the years
SubmitGetLatestTurnNoYearCheck(i) ==
    LET a == attempts[i]
    IN  /\ a.pc = "latest"
        /\ \E resp \in Years \cup {0} :
              LET b == [a EXCEPT !.log = Append(a.log, Entry("GetLatestTurn", a, resp))]
              IN  attempts' = [attempts EXCEPT ![i] =
                    IF resp = 0 THEN Return(b, a.class, "latestFailed")
                    ELSE [b EXCEPT !.pc = "submit"]]
        /\ UNCHANGED <<hashes, db, clients, authManagers, shuttingDown, onOrderSubmitted, fingerprints,
                       outsideSubmit>>

\* lines 350-359: the server's latest year (resp = 0: the query failed)
SubmitGetLatestTurn(i) ==
    LET a == attempts[i]
    IN  /\ a.pc = "latest"
        /\ \E resp \in Years \cup {0} :
              LET b == [a EXCEPT !.log = Append(a.log, Entry("GetLatestTurn", a, resp))]
              IN  attempts' = [attempts EXCEPT ![i] =
                    IF resp = 0 THEN Return(b, a.class, "latestFailed")
                    ELSE IF a.year # resp THEN Return(b, a.class, "yearMismatch")
                    ELSE [b EXCEPT !.pc = "submit"]]
        /\ UNCHANGED <<hashes, db, clients, authManagers, shuttingDown, onOrderSubmitted, fingerprints,
                       outsideSubmit>>

\* a variant of SubmitTurn that tracks the hash whatever the server answered
SubmitTurnIgnoresFailure(i) ==
    LET a == attempts[i]
    IN  /\ a.pc = "submit"
        /\ \E ok \in BOOLEAN :
              attempts' = [attempts EXCEPT ![i] =
                  [a EXCEPT !.pc = "setHash",
                            !.log = Append(a.log,
                                           Entry("SubmitTurn", a, IF ok THEN 1 ELSE 0))]]
        /\ UNCHANGED <<hashes, db, clients, authManagers, shuttingDown, onOrderSubmitted, fingerprints,
                       outsideSubmit>>

\* lines 361-367: client.SubmitTurn, which succeeds or fails
SubmitTurn(i) ==
    LET a == attempts[i]
    IN  /\ a.pc = "submit"
        /\ \E ok \in BOOLEAN :
              LET b == [a EXCEPT !.log =
                          Append(a.log, Entry("SubmitTurn", a, IF ok THEN 1 ELSE 0))]
              IN  attempts' = [attempts EXCEPT ![i] =
                    IF ok THEN [b EXCEPT !.pc = "setHash"]
                    ELSE Return(b, a.class, "submitFailed")]
        /\ UNCHANGED <<hashes, db, clients, authManagers, shuttingDown, onOrderSubmitted, fingerprints,
                       outsideSubmit>>

\* line 370, Tracker.SetHash lines 101-105: the in-memory map, under the lock
SubmitSetHash(i) ==
    LET a == attempts[i]
        key == makeKey(a.srv, a.sess, OrderKey(a.year))
    IN  /\ a.pc = "setHash"
        /\ hashes' = MapSet(hashes, key, a.currentHash)
        /\ fingerprints' = [fingerprints EXCEPT ![<<a.srv, a.sess, a.year>>] = a.currentHash]
        /\ attempts' = [attempts EXCEPT ![i] =
              [a EXCEPT !.pc = "persist",
                        !.log = Append(a.log, Entry("SetHash", a, 0))]]
        /\ UNCHANGED <<db, clients, authManagers, shuttingDown, onOrderSubmitted,
                       outsideSubmit>>

\* a variant of SubmitPersist in which the handler returns the error of SetHash
SubmitPersistFatal(i) ==
    LET a == attempts[i]
        key == makeKey(a.srv, a.sess, OrderKey(a.year))
    IN  /\ a.pc = "persist"
        /\ \E dbOk \in BOOLEAN :
              /\ db' = IF dbOk THEN MapSet(db, key, a.currentHash) ELSE db
              /\ attempts' = [attempts EXCEPT ![i] =
                    Return([a EXCEPT !.log = Append(a.log,
                                Entry("persist", a, IF dbOk THEN 1 ELSE 0))],
                           a.class, IF dbOk THEN "nil" ELSE "persist")]
        /\ UNCHANGED <<hashes, clients, authManagers, shuttingDown, onOrderSubmitted, fingerprints,
                       outsideSubmit>>

\* Tracker.SetHash lines 107-118 and lines 370-378: the durable write (val 1,
\* or 0 for its failure, which is logged) and the handler returns nil
SubmitPersist(i) ==
    LET a == attempts[i]
        key == makeKey(a.srv, a.sess, OrderKey(a.year))
    IN  /\ a.pc = "persist"
        /\ \E dbOk \in BOOLEAN :
              /\ db' = IF dbOk THEN MapSet(db, key, a.currentHash) ELSE db
              /\ attempts' = [attempts EXCEPT ![i] =
                    Return([a EXCEPT !.log = Append(a.log,
                                Entry("persist", a, IF dbOk THEN 1 ELSE 0))],
                           a.class, "nil")]
        /\ UNCHANGED <<hashes, clients, authManagers, shuttingDown, onOrderSubmitted, fingerprints,
                       outsideSubmit>>

\* a variant of WrapperCallback that reports success whatever the error
WrapperCallbackAlwaysSuccess(i) ==
    LET a == attempts[i]
        called == [a EXCEPT !.log = Append(a.log, Entry("callback", a, 1))]
        emitted == IF shuttingDown THEN called
                   ELSE [called EXCEPT !.log =
                           Append(called.log, Entry("order:submitted", a, 0))]
    IN  /\ a.pc = "callback"
        /\ attempts' = [attempts EXCEPT ![i] =
              [(IF onOrderSubmitted THEN emitted
                ELSE [a EXCEPT !.log = Append(a.log, Entry("nilCallback", a, 0))])
               EXCEPT !.pc = "done"]]
        /\ UNCHANGED <<hashes, db, clients, authManagers, shuttingDown, onOrderSubmitted, fingerprints,
                       outsideSubmit>>

(***************************************************************************)
(* Manager.Watch's submitWrapper after the handler returned (lines         *)
(* 944-952): read the callback under the registry's read lock, invoke it   *)
(* with success = (err == nil).  The callback is the closure of            *)
(* startMonitoringSession (app_monitoring.go:85-102): nothing when the     *)
(* application shuts down, else order:submitted or order:error.            *)
(* processOrderFile then only logs (lines 1222-1234).                      *)
(***************************************************************************)
WrapperCallback(i) ==
    LET a == attempts[i]
        success == (a.err = "nil")
        called == [a EXCEPT !.log =
                     Append(a.log, Entry("callback", a, IF success THEN 1 ELSE 0))]
        event == IF success THEN "order:submitted" ELSE "order:error"
        emitted == IF shuttingDown THEN called
                   ELSE [called EXCEPT !.log = Append(called.log, Entry(event, a, 0))]
    IN  /\ a.pc = "callback"
        /\ attempts' = [attempts EXCEPT ![i] =
              [(IF onOrderSubmitted THEN emitted
                ELSE [a EXCEPT !.log = Append(a.log, Entry("nilCallback", a, 0))])
               EXCEPT !.pc = "done"]]
        /\ UNCHANGED <<hashes, db, clients, authManagers, shuttingDown, onOrderSubmitted, fingerprints,
                       outsideSubmit>>

(***************************************************************************)
(* rescanAndUploadPendingOrders after the handler returned (lines          *)
(* 191-221): nothing on an error, nothing when a hash was stored before,   *)
(* else order:submitted unless the application shuts down.                 *)
(***************************************************************************)
RescanResult(i) ==
    LET a == attempts[i]
    IN  /\ a.pc = "rescanResult"
        /\ attempts' = [attempts EXCEPT ![i] =
              IF a.err # "nil" \/ a.hadHashBefore \/ shuttingDown
              THEN [a EXCEPT !.pc = "done"]
              ELSE [a EXCEPT !.pc = "done",
                             !.log = Append(a.log, Entry("order:submitted", a, 0))]]
        /\ UNCHANGED <<hashes, db, clients, authManagers, shuttingDown, onOrderSubmitted, fingerprints,
                       outsideSubmit>>

(***************************************************************************)
(* The application around the handler                                      *)
(***************************************************************************)
\* App.Connect: a.clients[serverURL] = client; a.authManagers[serverURL] = authMgr
RegisterClient(srv) ==
    /\ srv \notin clients
    /\ clients' = clients \cup {srv}
    /\ authManagers' = authManagers \cup {srv}
    /\ UNCHANGED <<hashes, db, shuttingDown, onOrderSubmitted, attempts, fingerprints,
                   outsideSubmit>>

\* App.Disconnect: delete(a.authManagers, serverURL); delete(a.clients, serverURL)
UnregisterClient(srv) ==
    /\ srv \in clients
    /\ clients' = clients \ {srv}
    /\ authManagers' = authManagers \ {srv}
    /\ UNCHANGED <<hashes, db, shuttingDown, onOrderSubmitted, attempts, fingerprints,
                   outsideSubmit>>

\* App.shutdown: a.shuttingDown = true
Shutdown ==
    /\ ~shuttingDown
    /\ shuttingDown' = TRUE
    /\ UNCHANGED <<hashes, db, clients, authManagers, onOrderSubmitted, attempts, fingerprints,
                   outsideSubmit>>

\* Manager.SetOnOrderSubmitted(fn), fn nil or not
SetOnOrderSubmitted(fn) ==
    /\ onOrderSubmitted # fn
    /\ onOrderSubmitted' = fn
    /\ UNCHANGED <<hashes, db, clients, authManagers, shuttingDown, attempts, fingerprints,
                   outsideSubmit>>

\* NewTracker / loadFromDB (tracker.go:27-74): the in-memory map starts as
\* the content of the database bucket.  The bucket is empty (first run) or
\* holds what an earlier run of the program stored after a successful
\* upload: here the fingerprint of PriorUpload.
PriorUpload == [srv |-> <<"s", "1">>, sess |-> <<"A">>, year |-> 2400, data |-> "B1"]

PriorBucket ==
    MapSet(<<>>, makeKey(PriorUpload.srv, PriorUpload.sess, OrderKey(PriorUpload.year)),
           ComputeHash(PriorUpload.data))

InitSubmit ==
    /\ db \in {<<>>, PriorBucket}
    /\ hashes = db
    /\ clients = {}
    /\ authManagers = {}
    /\ shuttingDown = FALSE
    /\ onOrderSubmitted = FALSE
    /\ attempts = [i \in Attempts |-> IdleAttempt]
    /\ fingerprints =
          [t \in Servers \X Sessions \X Years |->
              IF db # <<>> /\ t = <<PriorUpload.srv, PriorUpload.sess, PriorUpload.year>>
              THEN ComputeHash(PriorUpload.data) ELSE <<>>]

NextSubmit ==
    \/ \E i \in Attempts, srv \in Servers, sess \in Sessions : ProcessOrderFile(i, srv, sess)
    \/ \E i \in Attempts, srv \in Servers, sess \in Sessions : RescanRead(i, srv, sess)
    \/ \E i \in Attempts : RescanHadHash(i)
    \/ \E i \in Attempts : SubmitGetHash(i)
    \/ \E i \in Attempts : SubmitConflict(i)
    \/ \E i \in Attempts : SubmitLookupClient(i)
    \/ \E i \in Attempts : SubmitGetLatestTurn(i)
    \/ \E i \in Attempts : SubmitTurn(i)
    \/ \E i \in Attempts : SubmitSetHash(i)
    \/ \E i \in Attempts : SubmitPersist(i)
    \/ \E i \in Attempts : WrapperCallback(i)
    \/ \E i \in Attempts : RescanResult(i)
    \/ \E srv \in Servers : RegisterClient(srv)
    \/ \E srv \in Servers : UnregisterClient(srv)
    \/ Shutdown
    \/ \E fn \in BOOLEAN : SetOnOrderSubmitted(fn)

(***************************************************************************)
(* The watch coordinator, monitor.Manager.  Every method holds m.mu for    *)
(* its whole body, so each is one atomic action.  pool[w] is the w-th      *)
(* SessionWatcher constructed: its session id, whether Start launched its  *)
(* event loop, and its stopped flag.  dirs[id] is what the file system     *)
(* holds at the session's GameDir.                                         *)
(***************************************************************************)
Active(w) == pool[w].started /\ ~pool[w].stopped

\* SessionWatcher.Stop as the coordinator sees it: the stopped flag
StopWatcher(p, w) == [p EXCEPT ![w].stopped = TRUE]

\* the outcome of SessionWatcher.Start for the directory (addOk: watcher.Add)
StartError(kind, addOk) ==
    CASE kind = "missing" -> "game directory does not exist"
      [] kind = "statError" -> "failed to stat game directory"
      [] kind = "file" -> "game directory path is not a directory"
      [] ~addOk -> "failed to watch directory"
      [] OTHER -> "nil"

Called(op, id, ret) == [op |-> op, id |-> id, ret |-> ret, before |-> registry]

\* a variant of Watch without the check for an existing watcher
WatchWithoutExistsCheck(id) ==
    /\ Len(pool) < MaxWatchers
    /\ \E newOk \in BOOLEAN, addOk \in BOOLEAN :
          LET w == Len(pool) + 1
              err == StartError(dirs[id], addOk)
          IN  IF ~newOk
              THEN /\ watchRet' = Called("Watch", id, "failed to create watcher")
                   /\ UNCHANGED <<registry, pool, wanted>>
              ELSE IF err # "nil"
              THEN /\ pool' = Append(pool, [session |-> id, started |-> FALSE,
                                            stopped |-> FALSE])
                   /\ watchRet' = Called("Watch", id, err)
                   /\ UNCHANGED <<registry, wanted>>
              ELSE /\ pool' = Append(pool, [session |-> id, started |-> TRUE,
                                            stopped |-> FALSE])
                   /\ registry' = MapSet(registry, id, w)
                   /\ wanted' = wanted \cup {id}
                   /\ watchRet' = Called("Watch", id, "nil")
    /\ UNCHANGED <<dirs, outsideCoord>>

\* Manager.Watch(session), the body under m.mu: nothing for a watched id;
\* else NewSessionWatcher, Start, and on success the registration
doWatch(id) ==
    IF id \in DOMAIN registry
    THEN /\ watchRet' = Called("Watch", id, "nil")
         /\ wanted' = wanted \cup {id}
         /\ UNCHANGED <<registry, pool>>
    ELSE /\ Len(pool) < MaxWatchers
         /\ \E newOk \in BOOLEAN, addOk \in BOOLEAN :
               LET w == Len(pool) + 1
                   err == StartError(dirs[id], addOk)
               IN  IF ~newOk
                   THEN /\ watchRet' = Called("Watch", id, "failed to create watcher")
                        /\ UNCHANGED <<registry, pool, wanted>>
                   ELSE IF err # "nil"
                   THEN /\ pool' = Append(pool, [session |-> id, started |-> FALSE,
                                                 stopped |-> FALSE])
                        /\ watchRet' = Called("Watch", id, err)
                        /\ UNCHANGED <<registry, wanted>>
                   ELSE /\ pool' = Append(pool, [session |-> id, started |-> TRUE,
                                                 stopped |-> FALSE])
                        /\ registry' = MapSet(registry, id, w)
                        /\ wanted' = wanted \cup {id}
                        /\ watchRet' = Called("Watch", id, "nil")

Watch(id) == doWatch(id) /\ UNCHANGED <<dirs, outsideCoord>>

\* Manager.Unwatch(sessionID), the body under m.mu
doUnwatch(id) ==
    /\ IF id \in DOMAIN registry
       THEN /\ pool' = StopWatcher(pool, registry[id])
            /\ registry' = [k \in DOMAIN registry \ {id} |-> registry[k]]
       ELSE UNCHANGED <<pool, registry>>
    /\ wanted' = wanted \ {id}
    /\ watchRet' = Called("Unwatch", id, "nil")

Unwatch(id) == doUnwatch(id) /\ UNCHANGED <<dirs, outsideCoord>>

\* Manager.Stop(), the body under m.mu
doStop ==
    /\ pool' = [w \in DOMAIN pool |->
                  IF \E id \in DOMAIN registry : registry[id] = w
                  THEN [pool[w] EXCEPT !.stopped = TRUE] ELSE pool[w]]
    /\ registry' = <<>>
    /\ wanted' = {}
    /\ watchRet' = Called("Stop", <<>>, "nil")

StopAll == doStop /\ UNCHANGED <<dirs, outsideCoord>>

\* Manager.WatchedSessions(): the ids of the registry (in no fixed order)
WatchedSessions == {id \in WatchIds : id \in DOMAIN registry}

\* the file system: a game directory is created, removed, replaced by a
\* file, or becomes unreadable
SetDir(id, kind) ==
    /\ dirs[id] # kind
    /\ dirs' = [dirs EXCEPT ![id] = kind]
    /\ UNCHANGED <<registry, pool, wanted, watchRet, outsideCoord>>

InitCoord ==
    /\ registry = <<>>
    /\ pool = <<>>
    /\ dirs = [id \in WatchIds |-> "dir"]
    /\ wanted = {}
    /\ watchRet = [op |-> "none", id |-> <<>>, ret |-> "nil", before |-> <<>>]

NextCoord ==
    \/ \E id \in WatchIds : Watch(id)
    \/ \E id \in WatchIds : Unwatch(id)
    \/ StopAll
    \/ \E id \in WatchIds, kind \in {"dir", "missing", "file", "statError"} : SetDir(id, kind)

(***************************************************************************)
(* One SessionWatcher after Start: its event loop, its debounce timer and  *)
(* the goroutines the timers launch.  The clock counts ticks of 250 ms;    *)
(* a timer of the runtime fires when its deadline is reached, so the clock *)
(* does not advance past a deadline while that timer is still pending, nor *)
(* while a launched function has not yet taken its first step.             *)
(* timers[k] is the k-th time.Timer: when it was created, its deadline,    *)
(* its state, and whether the event that created it found the previous     *)
(* timer still pending.                                                    *)
(***************************************************************************)
\* the debounce delay 500*time.Millisecond, in ticks
DebounceTicks == 2

\* the WatchedSession of this watcher
session == [SessionID |-> <<"A">>, PlayerOrder |-> 0]

\* the file names (filepath.Base of event.Name) and operations of the events
EventNames == {<<"game.x", 1>>, <<"game.x", 2>>, <<"game.m", 1>>}
EventOps == {{"Write"}, {"Create"}, {"Write", "Chmod"}, {"Remove"}}

expectedOrderFile == <<"game.x", session.PlayerOrder + 1>>

\* time.Timer.Stop: a pending timer will not fire; any other is left alone
TimerStop(ts, k) ==
    IF k # 0 /\ ts[k].state = "pending" THEN [ts EXCEPT ![k].state = "stopped"] ELSE ts

\* time.AfterFunc: the new timer, whose function holds event.Name
NewTimer(ts, name) ==
    [created |-> now, deadline |-> now + DebounceTicks, state |-> "pending",
     early |-> debounceTimer # 0 /\ ts[debounceTimer].state = "pending",
     name |-> name]

\* a variant of handleEvent that does not stop the pending timer
handleEventKeepsTimer(op, name) ==
    /\ loop = "running"
    /\ IF ~("Write" \in op \/ "Create" \in op) \/ name # expectedOrderFile
       THEN UNCHANGED <<timers, debounceTimer>>
       ELSE /\ Len(timers) < MaxTimers
            /\ timers' = Append(timers, NewTimer(timers, name))
            /\ debounceTimer' = Len(timers) + 1
    /\ lastEvent' = [op |-> op, name |-> name]
    /\ UNCHANGED <<now, stopped, stopCh, stopCalls, loop, cycles, outsideDebounce>>

\* a variant of handleEvent without the check of the event's kind
handleEventAnyKind(op, name) ==
    /\ loop = "running"
    /\ IF name # expectedOrderFile
       THEN UNCHANGED <<timers, debounceTimer>>
       ELSE /\ Len(timers) < MaxTimers
            /\ timers' = Append(TimerStop(timers, debounceTimer), NewTimer(timers, name))
            /\ debounceTimer' = Len(timers) + 1
    /\ lastEvent' = [op |-> op, name |-> name]
    /\ UNCHANGED <<now, stopped, stopCh, stopCalls, loop, cycles, outsideDebounce>>

\* SessionWatcher.handleEvent(event), called by the event loop
handleEvent(op, name) ==
    /\ loop = "running"
    /\ IF ~("Write" \in op \/ "Create" \in op) \/ name # expectedOrderFile
       THEN UNCHANGED <<timers, debounceTimer>>
       ELSE /\ Len(timers) < MaxTimers
            /\ timers' = Append(TimerStop(timers, debounceTimer), NewTimer(timers, name))
            /\ debounceTimer' = Len(timers) + 1
    /\ lastEvent' = [op |-> op, name |-> name]
    /\ UNCHANGED <<now, stopped, stopCh, stopCalls, loop, cycles, outsideDebounce>>

\* the runtime fires a due timer: its function starts in a goroutine of its own
TimerFire(k) ==
    /\ k \in DOMAIN timers
    /\ timers[k].state = "pending"
    /\ timers[k].deadline <= now
    /\ timers' = [timers EXCEPT ![k].state = "fired"]
    /\ UNCHANGED <<now, stopped, stopCh, stopCalls, debounceTimer, loop, lastEvent, cycles,
                   outsideDebounce>>

\* SessionWatcher.processOrderFile up to the release of w.mu: return if
\* stopped, else go on to the validator
processOrderFile(k) ==
    /\ k \in DOMAIN timers
    /\ timers[k].state = "fired"
    /\ timers' = [timers EXCEPT ![k].state = IF stopped THEN "done" ELSE "checked"]
    /\ UNCHANGED <<now, stopped, stopCh, stopCalls, debounceTimer, loop, lastEvent, cycles,
                   outsideDebounce>>

\* a cycle: the timer, the time, the file, how many Stop calls had returned
\* when the validator was called, whether the validator returned no error,
\* and whether the submit function was called
Cycle(k, valid, submit) ==
    [timer |-> k, at |-> now, file |-> timers[k].name, stops |-> stopCalls,
     valid |-> valid, submit |-> submit]

\* a processOrderFile that submits whatever the validator returned
SubmitAlways(valid) == TRUE

\* processOrderFile calls the submit function only if the validator
\* returned no error
SubmitIfValid(valid) == valid

\* SessionWatcher.processOrderFile after the stopped check: the validator
\* is called and, unless it returned an error, the submit function
orderHandler(k, valid) ==
    /\ k \in DOMAIN timers
    /\ timers[k].state = "checked"
    /\ timers' = [timers EXCEPT ![k].state = "done"]
    /\ cycles' = Append(cycles, Cycle(k, valid, SubmitIfValid(valid)))
    /\ UNCHANGED <<now, stopped, stopCh, stopCalls, debounceTimer, loop, lastEvent,
                   outsideDebounce>>

\* SessionWatcher.Stop(), up to the release of w.mu, by the first caller
Stop ==
    /\ ~stopped
    /\ stopped' = TRUE
    /\ timers' = TimerStop(timers, debounceTimer)
    /\ UNCHANGED <<now, stopCh, stopCalls, debounceTimer, loop, lastEvent, cycles,
                   outsideDebounce>>

\* the first caller of Stop closes stopCh and the fsnotify watcher and returns
StopClose ==
    /\ stopped
    /\ stopCh = "open"
    /\ stopCh' = "closed"
    /\ stopCalls' = stopCalls + 1
    /\ UNCHANGED <<now, stopped, debounceTimer, timers, loop, lastEvent, cycles,
                   outsideDebounce>>

\* a further call of Stop finds stopped set and returns
StopAgain ==
    /\ stopped
    /\ stopCalls < MaxStopCalls - (IF stopCh = "open" THEN 1 ELSE 0)
    /\ stopCalls' = stopCalls + 1
    /\ UNCHANGED <<now, stopped, stopCh, debounceTimer, timers, loop, lastEvent, cycles,
                   outsideDebounce>>

\* eventLoop sees the closed stopCh (or the closed Events channel) and returns
eventLoopExit ==
    /\ stopCh = "closed"
    /\ loop = "running"
    /\ loop' = "exited"
    /\ UNCHANGED <<now, stopped, stopCh, stopCalls, debounceTimer, timers, lastEvent,
                   cycles, outsideDebounce>>

\* the clock
Tick ==
    /\ now < MaxTime
    /\ \A k \in DOMAIN timers :
          /\ ~(timers[k].state = "pending" /\ timers[k].deadline <= now)
          /\ timers[k].state \notin {"fired", "checked"}
    /\ now' = now + 1
    /\ UNCHANGED <<stopped, stopCh, stopCalls, debounceTimer, timers, loop, lastEvent,
                   cycles, outsideDebounce>>

InitDebounce ==
    /\ now = 0
    /\ stopped = FALSE
    /\ stopCh = "open"
    /\ stopCalls = 0
    /\ debounceTimer = 0
    /\ timers = <<>>
    /\ loop = "running"
    /\ lastEvent = [op |-> {}, name |-> <<>>]
    /\ cycles = <<>>

NextDebounce ==
    \/ \E op \in EventOps, name \in EventNames : handleEvent(op, name)
    \/ \E k \in 1..MaxTimers : TimerFire(k)
    \/ \E k \in 1..MaxTimers : processOrderFile(k)
    \/ \E k \in 1..MaxTimers, valid \in BOOLEAN : orderHandler(k, valid)
    \/ Stop
    \/ StopClose
    \/ StopAgain
    \/ eventLoopExit
    \/ Tick

(***************************************************************************)
(* The fingerprint store called directly, one call at a time:              *)
(* Tracker.SetHash, ForgetFile, ForgetSession, ForgetServer,               *)
(* WriteFileIfChanged, and a restart of the application (database.Open and *)
(* NewTracker on the same database file).  Identities are strings without  *)
(* the separator; one is a prefix of another.                              *)
(***************************************************************************)
Scopes == {<<<<"s">>, <<"A">>>>, <<<<"s">>, <<"A", "B">>>>, <<<<"s", "1">>, <<"A">>>>}
Paths == {<<"f">>}
Triples == {<<sc[1], sc[2], k>> : sc \in Scopes, k \in Paths}

\* strings.HasPrefix
HasPrefix(str, prefix) ==
    Len(prefix) <= Len(str) /\ SubSeq(str, 1, Len(prefix)) = prefix

\* delete(t.hashes, key) for every key of keys (also db.Delete on the bucket)
MapDelete(h, keys) == [k \in DOMAIN h \ keys |-> h[k]]

\* a variant of HasChanged that reports an untracked file as unchanged
HasChangedOnlyIfTracked(h, serverURL, sessionID, filePath, data) ==
    LET newHash == ComputeHash(data)
        storedHash == GetHash(h, serverURL, sessionID, filePath)
    IN  storedHash # <<>> /\ storedHash # newHash

\* Tracker.HasChanged
HasChanged(h, serverURL, sessionID, filePath, data) ==
    LET newHash == ComputeHash(data)
        storedHash == GetHash(h, serverURL, sessionID, filePath)
    IN  storedHash # newHash

\* whether an I/O operation succeeds: it may fail while failures are left
IOResults == IF failures < MaxFailures THEN {TRUE, FALSE} ELSE {TRUE}
Fail(oks) == failures + Cardinality({i \in DOMAIN oks : ~oks[i]})

\* a call and its result: ok = no error returned, written = the first result
\* of WriteFileIfChanged
Call(op, t, data, ok, written) ==
    [op |-> op, t |-> t, data |-> data, ok |-> ok, written |-> written]

\* a variant of SetHash that updates the in-memory map only
SetHashInMemory(t, data) ==
    LET key == makeKey(t[1], t[2], t[3])
        hash == ComputeHash(data)
    IN  /\ hashes' = MapSet(hashes, key, hash)
        /\ tracked' = [tracked EXCEPT ![t] = hash]
        /\ pure' = [pure EXCEPT ![t] = FALSE]
        /\ lastCall' = Call("SetHash", t, data, TRUE, FALSE)
        /\ UNCHANGED <<db, files, clean, failures, appVars, outsideTracker>>

\* Tracker.SetHash(serverURL, sessionID, filePath, hash), hash = ComputeHash(data)
SetHash(t, data) ==
    LET key == makeKey(t[1], t[2], t[3])
        hash == ComputeHash(data)
    IN  \E dbOk \in IOResults :
          /\ hashes' = MapSet(hashes, key, hash)
          /\ db' = IF dbOk THEN MapSet(db, key, hash) ELSE db
          /\ tracked' = [tracked EXCEPT ![t] = hash]
          /\ pure' = [pure EXCEPT ![t] = FALSE]
          /\ clean' = (clean /\ dbOk)
          /\ failures' = Fail(<<dbOk>>)
          /\ lastCall' = Call("SetHash", t, data, dbOk, FALSE)
          /\ UNCHANGED <<files, appVars, outsideTracker>>

\* Tracker.ForgetFile
ForgetFile(t) ==
    LET key == makeKey(t[1], t[2], t[3])
    IN  \E dbOk \in IOResults :
          /\ hashes' = MapDelete(hashes, {key})
          /\ db' = IF dbOk THEN MapDelete(db, {key}) ELSE db
          /\ tracked' = [tracked EXCEPT ![t] = <<>>]
          /\ pure' = [pure EXCEPT ![t] = FALSE]
          /\ clean' = (clean /\ dbOk)
          /\ failures' = Fail(<<dbOk>>)
          /\ lastCall' = Call("ForgetFile", t, "", dbOk, FALSE)
          /\ UNCHANGED <<files, appVars, outsideTracker>>

\* the common body of ForgetSession and ForgetServer: the keys with the
\* prefix leave the map, then the bucket key by key (a failure is logged)
ForgetPrefix(prefix) ==
    LET toDelete == {key \in DOMAIN hashes : HasPrefix(key, prefix)}
    IN  \E failed \in SUBSET toDelete :
          /\ failures + Cardinality(failed) <= MaxFailures
          /\ hashes' = MapDelete(hashes, toDelete)
          /\ db' = MapDelete(db, toDelete \ failed)
          /\ clean' = (clean /\ failed = {})
          /\ failures' = failures + Cardinality(failed)

\* a variant of ForgetSession whose prefix does not end with the separator
ForgetSessionOpenPrefix(serverURL, sessionID) ==
      /\ ForgetPrefix(serverURL \o <<KeySeparator>> \o sessionID)
      /\ tracked' = [t \in Triples |->
                       IF t[1] = serverURL /\ t[2] = sessionID THEN <<>> ELSE tracked[t]]
      /\ pure' = [t \in Triples |->
                    IF t[1] = serverURL /\ t[2] = sessionID THEN FALSE ELSE pure[t]]
      /\ lastCall' = Call("ForgetSession", <<serverURL, sessionID>>, "", TRUE, FALSE)
      /\ UNCHANGED <<files, appVars, outsideTracker>>

\* Tracker.ForgetSession(serverURL, sessionID)
ForgetSession(serverURL, sessionID) ==
      /\ ForgetPrefix(serverURL \o <<KeySeparator>> \o sessionID \o <<KeySeparator>>)
      /\ tracked' = [t \in Triples |->
                       IF t[1] = serverURL /\ t[2] = sessionID THEN <<>> ELSE tracked[t]]
      /\ pure' = [t \in Triples |->
                    IF t[1] = serverURL /\ t[2] = sessionID THEN FALSE ELSE pure[t]]
      /\ lastCall' = Call("ForgetSession", <<serverURL, sessionID>>, "", TRUE, FALSE)
      /\ UNCHANGED <<files, appVars, outsideTracker>>

\* Tracker.ForgetServer(serverURL)
ForgetServer(serverURL) ==
      /\ ForgetPrefix(serverURL \o <<KeySeparator>>)
      /\ tracked' = [t \in Triples |-> IF t[1] = serverURL THEN <<>> ELSE tracked[t]]
      /\ pure' = [t \in Triples |-> IF t[1] = serverURL THEN FALSE ELSE pure[t]]
      /\ lastCall' = Call("ForgetServer", <<serverURL>>, "", TRUE, FALSE)
      /\ UNCHANGED <<files, appVars, outsideTracker>>

\* a variant of WriteFileIfChanged that writes without comparing hashes
WriteFileAlways(t, data) ==
    LET key == makeKey(t[1], t[2], t[3])
        newHash == ComputeHash(data)
        others == {u \in Triples : u # t /\ u[3] = t[3]}
    IN  /\ files' = [files EXCEPT ![t[3]] = data]
        /\ hashes' = MapSet(hashes, key, newHash)
        /\ db' = MapSet(db, key, newHash)
        /\ tracked' = [tracked EXCEPT ![t] = newHash]
        /\ pure' = [u \in Triples |-> IF u \in others THEN FALSE ELSE pure[u]]
        /\ lastCall' = Call("WriteFileIfChanged", t, data, TRUE, TRUE)
        /\ UNCHANGED <<clean, failures, appVars, outsideTracker>>

\* Tracker.WriteFileIfChanged(serverURL, sessionID, filePath, data, perm)
WriteFileIfChanged(t, data) ==
    LET key == makeKey(t[1], t[2], t[3])
        newHash == ComputeHash(data)
        storedHash == GetHash(hashes, t[1], t[2], t[3])
        others == {u \in Triples : u # t /\ u[3] = t[3]}
    IN  IF storedHash = newHash
        THEN /\ lastCall' = Call("WriteFileIfChanged", t, data, TRUE, FALSE)
             /\ UNCHANGED <<hashes, db, files, tracked, pure, clean, failures,
                            appVars, outsideTracker>>
        ELSE \E writeOk \in IOResults :
               IF ~writeOk
               THEN /\ \E left \in {files[t[3]], "partial"} :
                         files' = [files EXCEPT ![t[3]] = left]
                    /\ failures' = failures + 1
                    /\ pure' = [u \in Triples |-> IF u[3] = t[3] THEN FALSE ELSE pure[u]]
                    /\ lastCall' = Call("WriteFileIfChanged", t, data, FALSE, FALSE)
                    /\ UNCHANGED <<hashes, db, tracked, clean, appVars, outsideTracker>>
               ELSE \E dbOk \in IOResults :
                    /\ files' = [files EXCEPT ![t[3]] = data]
                    /\ hashes' = MapSet(hashes, key, newHash)
                    /\ db' = IF dbOk THEN MapSet(db, key, newHash) ELSE db
                    /\ tracked' = [tracked EXCEPT ![t] = newHash]
                    /\ pure' = [u \in Triples |->
                                  IF u \in others \/ (u = t /\ ~dbOk) THEN FALSE ELSE pure[u]]
                    /\ clean' = (clean /\ dbOk)
                    /\ failures' = Fail(<<dbOk>>)
                    /\ lastCall' = Call("WriteFileIfChanged", t, data, TRUE, TRUE)
                    /\ UNCHANGED <<appVars, outsideTracker>>

\* the application is closed and started again on the same database file:
\* NewTracker loads the bucket into a new in-memory map
NewTracker ==
    /\ hashes' = [key \in DOMAIN db |-> db[key]]
    /\ tracked' = IF clean THEN tracked
                  ELSE [t \in Triples |-> GetHash(db, t[1], t[2], t[3])]
    /\ clean' = TRUE
    /\ lastCall' = Call("NewTracker", <<>>, "", TRUE, FALSE)
    /\ UNCHANGED <<db, files, pure, failures, appVars, outsideTracker>>

InitTracker ==
    /\ files = [p \in Paths |-> "absent"]
    /\ tracked = [t \in Triples |-> <<>>]
    /\ pure = [t \in Triples |-> TRUE]
    /\ clean = TRUE
    /\ failures = 0
    /\ lastCall = Call("none", <<>>, "", TRUE, FALSE)

NextTracker ==
    \/ \E t \in Triples, data \in Contents : SetHash(t, data)
    \/ \E t \in Triples : ForgetFile(t)
    \/ \E sc \in Scopes : ForgetSession(sc[1], sc[2])
    \/ \E sc \in Scopes : ForgetServer(sc[1])
    \/ \E t \in Triples, data \in Contents : WriteFileIfChanged(t, data)
    \/ NewTracker

\* ------------------------------------------------------------------
\* auth.Manager and the token of its api.Client
\*
\* The clock counts ticks of 30 seconds.  App.Connect builds one Manager per
\* connection, calls Connect on it once, and hands it to App.Disconnect only
\* after Connect has returned.

TokenLifetime == 10
RefreshInterval == 8
SafetyMargin == 1
RequestTimeout == 1
MaxClock == 18

\* a SetToken that stores the token without its expiry
SetTokenKeepsExpiry(t, expiry) ==
    /\ token' = t
    /\ UNCHANGED tokenExp

\* Client.SetToken: the token and its expiry
SetToken(t, expiry) ==
    /\ token' = t
    /\ tokenExp' = expiry

\* Client.GetToken, through Manager.GetToken
GetToken == token

\* Client.IsTokenValid
IsTokenValid ==
    IF token = 0 THEN FALSE ELSE clock + SafetyMargin < tokenExp

\* Manager.IsConnected
IsConnected == connected

\* Manager.GetUserInfo: is there user information
GetUserInfo == userInfo

\* one entry of the history
Ev(ev, tok, conn, err, cb) ==
    [ev |-> ev, tok |-> tok, conn |-> conn, err |-> err, cb |-> cb]

\* Manager.notifyConnectionState: the entry it leaves, cb = the callback was set
notifyConnectionState(conn, err) ==
    Ev("ConnectionState", 0, conn, err, onConnectionStateChange)

\* Manager.notifyTokenRefreshed
notifyTokenRefreshed(tok) ==
    Ev("TokenRefreshed", tok, FALSE, "", onTokenRefreshed)

SetOnConnectionStateChange ==
    /\ ~onConnectionStateChange
    /\ onConnectionStateChange' = TRUE
    /\ UNCHANGED <<clock, token, tokenExp, connected, userInfo, cancelled, refreshLoop,
                   nextTick, connectCall, disconnectCall, onTokenRefreshed, trace,
                   outsideAuth>>

SetOnTokenRefreshed ==
    /\ ~onTokenRefreshed
    /\ onTokenRefreshed' = TRUE
    /\ UNCHANGED <<clock, token, tokenExp, connected, userInfo, cancelled, refreshLoop,
                   nextTick, connectCall, disconnectCall, onConnectionStateChange, trace,
                   outsideAuth>>

\* Connect is called and client.Authenticate answers
ConnectAuthenticate(ok) ==
    /\ connectCall = "idle"
    /\ IF ok
       THEN /\ SetToken(1, clock + TokenLifetime)
            /\ connectCall' = "authenticated"
            /\ trace' = Append(trace, Ev("Connect", 0, FALSE, "", FALSE))
       ELSE /\ connectCall' = "failed"
            /\ trace' = trace \o <<Ev("Connect", 0, FALSE, "", FALSE),
                                   notifyConnectionState(FALSE, "authentication"),
                                   Ev("ConnectReturn", 0, FALSE, "authentication", FALSE)>>
            /\ UNCHANGED <<token, tokenExp>>
    /\ UNCHANGED <<clock, connected, userInfo, cancelled, refreshLoop, nextTick,
                   disconnectCall, onConnectionStateChange, onTokenRefreshed,
                   outsideAuth>>

\* a Connect that reports the connection before the token
ConnectStateFirst ==
    /\ connected' = TRUE
    /\ userInfo' = TRUE
    /\ trace' = trace \o <<notifyConnectionState(TRUE, ""),
                           notifyTokenRefreshed(token),
                           Ev("ConnectReturn", 0, TRUE, "", FALSE)>>

\* what Connect does once the user information has arrived
ConnectSucceeds ==
    /\ connected' = TRUE
    /\ userInfo' = TRUE
    /\ trace' = trace \o <<notifyTokenRefreshed(token),
                           notifyConnectionState(TRUE, ""),
                           Ev("ConnectReturn", 0, TRUE, "", FALSE)>>

\* client.GetUserInfo answers and Connect runs to its return
ConnectGetUserInfo(ok) ==
    /\ connectCall = "authenticated"
    /\ IF ok
       THEN /\ ConnectSucceeds
            /\ refreshLoop' = "waiting"
            /\ nextTick' = clock + RefreshInterval
            /\ connectCall' = "connected"
       ELSE /\ connectCall' = "failed"
            /\ trace' = trace \o <<notifyConnectionState(FALSE, "userinfo"),
                                   Ev("ConnectReturn", 0, FALSE, "userinfo", FALSE)>>
            /\ UNCHANGED <<connected, userInfo, refreshLoop, nextTick>>
    /\ UNCHANGED <<clock, token, tokenExp, cancelled, disconnectCall,
                   onConnectionStateChange, onTokenRefreshed, outsideAuth>>

\* tokenRefreshLoop takes a tick of its ticker and sends the refresh request
LoopTick ==
    /\ refreshLoop = "waiting"
    /\ clock >= nextTick
    /\ refreshLoop' = IF cancelled THEN "refreshingCancelled" ELSE "refreshing"
    /\ nextTick' = nextTick + RefreshInterval
    /\ trace' = Append(trace, Ev("RefreshToken", token, FALSE, "", FALSE))
    /\ UNCHANGED <<clock, token, tokenExp, connected, userInfo, cancelled, connectCall,
                   disconnectCall, onConnectionStateChange, onTokenRefreshed,
                   outsideAuth>>

\* a loop that keeps running after a failed refresh
AfterRefreshErrorContinue == "waiting"

\* where the loop goes after a failed refresh
AfterRefreshError == "exited"

\* client.RefreshToken answers; a request on a cancelled context only fails
RefreshReturn(ok) ==
    /\ refreshLoop \in {"refreshing", "refreshingCancelled"}
    /\ ok => refreshLoop = "refreshing"
    /\ IF ok
       THEN /\ SetToken(token + 1, clock + TokenLifetime)
            /\ trace' = Append(trace, notifyTokenRefreshed(token + 1))
            /\ refreshLoop' = "waiting"
            /\ UNCHANGED connected
       ELSE /\ connected' = FALSE
            /\ trace' = Append(trace, notifyConnectionState(FALSE,
                            IF refreshLoop = "refreshingCancelled" THEN "canceled"
                                                                     ELSE "refresh"))
            /\ refreshLoop' = AfterRefreshError
            /\ UNCHANGED <<token, tokenExp>>
    /\ UNCHANGED <<clock, userInfo, cancelled, nextTick, connectCall, disconnectCall,
                   onConnectionStateChange, onTokenRefreshed, outsideAuth>>

\* tokenRefreshLoop sees its context done and returns
LoopExit ==
    /\ refreshLoop = "waiting"
    /\ cancelled
    /\ refreshLoop' = "exited"
    /\ UNCHANGED <<clock, token, tokenExp, connected, userInfo, cancelled, nextTick,
                   connectCall, disconnectCall, onConnectionStateChange,
                   onTokenRefreshed, trace, outsideAuth>>

\* Disconnect is called and cancels the context
DisconnectCancel ==
    /\ connectCall \in {"connected", "failed"}
    /\ disconnectCall = "idle"
    /\ cancelled' = TRUE
    /\ disconnectCall' = "waiting"
    /\ trace' = Append(trace, Ev("Disconnect", 0, FALSE, "", FALSE))
    /\ UNCHANGED <<clock, token, tokenExp, connected, userInfo, refreshLoop, nextTick,
                   connectCall, onConnectionStateChange, onTokenRefreshed, outsideAuth>>

\* a Disconnect that does not wait for the loop
wgNoWait == TRUE

\* wg.Wait returns: no refresh loop is running
wgWait == refreshLoop \in {"none", "exited"}

\* Disconnect after wg.Wait: clears the state, notifies and returns
DisconnectReturn ==
    /\ disconnectCall = "waiting"
    /\ wgWait
    /\ connected' = FALSE
    /\ userInfo' = FALSE
    /\ disconnectCall' = "returned"
    /\ trace' = trace \o <<notifyConnectionState(FALSE, ""),
                           Ev("DisconnectReturn", 0, FALSE, "", FALSE)>>
    /\ UNCHANGED <<clock, token, tokenExp, cancelled, refreshLoop, nextTick, connectCall,
                   onConnectionStateChange, onTokenRefreshed, outsideAuth>>

\* when the request that is in flight was sent
RequestSent ==
    IF connectCall = "authenticated" THEN tokenExp - TokenLifetime
    ELSE nextTick - RefreshInterval

\* the longest the call in flight can take: Connect's user-info request and
\* its callbacks, or RefreshToken's request and its re-authentication
RequestLimit ==
    IF connectCall = "authenticated" THEN RequestTimeout ELSE 2 * RequestTimeout

\* 30 seconds pass; a loop waiting on a due ticker or a done context runs
\* first, and a request in flight ends within the HTTP client's timeout
ClockAdvance ==
    /\ clock < MaxClock
    /\ ~(refreshLoop = "waiting" /\ (clock >= nextTick \/ cancelled))
    /\ (connectCall = "authenticated"
           \/ refreshLoop \in {"refreshing", "refreshingCancelled"})
          => clock < RequestSent + RequestLimit
    /\ clock' = clock + 1
    /\ UNCHANGED <<token, tokenExp, connected, userInfo, cancelled, refreshLoop, nextTick,
                   connectCall, disconnectCall, onConnectionStateChange,
                   onTokenRefreshed, trace, outsideAuth>>

InitAuth ==
    /\ clock = 0
    /\ token = 0
    /\ tokenExp = 0
    /\ connected = FALSE
    /\ userInfo = FALSE
    /\ cancelled = FALSE
    /\ refreshLoop = "none"
    /\ nextTick = 0
    /\ connectCall = "idle"
    /\ disconnectCall = "idle"
    /\ onConnectionStateChange = FALSE
    /\ onTokenRefreshed = FALSE
    /\ trace = <<>>

NextAuth ==
    \/ SetOnConnectionStateChange
    \/ SetOnTokenRefreshed
    \/ \E ok \in BOOLEAN : ConnectAuthenticate(ok)
    \/ \E ok \in BOOLEAN : ConnectGetUserInfo(ok)
    \/ LoopTick
    \/ \E ok \in BOOLEAN : RefreshReturn(ok)
    \/ LoopExit
    \/ DisconnectCancel
    \/ DisconnectReturn
    \/ ClockAdvance

(***************************************************************************)
(* Tracker calls made by several goroutines at once.  SetHash, ForgetFile  *)
(* and ForgetSession update the map under t.mu, release the lock, and only *)
(* then write to the bucket, one db.Set or db.Delete (a transaction of its *)
(* own) per key; calls[i] is a call between those two parts.               *)
(***************************************************************************)
IdleCall == [pc |-> "idle", op |-> "none", keys |-> {}, hash |-> <<>>]
DoneCall == [pc |-> "done", op |-> "none", keys |-> {}, hash |-> <<>>]

\* the call is over once its last durable write is made
AfterWrite(c, key) ==
    IF c.keys \ {key} = {} THEN DoneCall ELSE [c EXCEPT !.keys = c.keys \ {key}]

\* Tracker.SetHash: t.hashes[key] = hash under t.mu
SetHashLocked(i, t, data) ==
    LET key == makeKey(t[1], t[2], t[3])
    IN  /\ calls[i].pc = "idle"
        /\ hashes' = MapSet(hashes, key, ComputeHash(data))
        /\ calls' = [calls EXCEPT ![i] =
               [pc |-> "persist", op |-> "Set", keys |-> {key}, hash |-> ComputeHash(data)]]
        /\ UNCHANGED <<db, clean, failures, outsideRace>>

\* Tracker.ForgetFile: delete(t.hashes, key) under t.mu
ForgetFileLocked(i, t) ==
    LET key == makeKey(t[1], t[2], t[3])
    IN  /\ calls[i].pc = "idle"
        /\ hashes' = MapDelete(hashes, {key})
        /\ calls' = [calls EXCEPT ![i] =
               [pc |-> "persist", op |-> "Delete", keys |-> {key}, hash |-> <<>>]]
        /\ UNCHANGED <<db, clean, failures, outsideRace>>

\* Tracker.ForgetSession: the keys with the session's prefix leave the map
\* under t.mu
ForgetSessionLocked(i, serverURL, sessionID) ==
    LET prefix == serverURL \o <<KeySeparator>> \o sessionID \o <<KeySeparator>>
        toDelete == {key \in DOMAIN hashes : HasPrefix(key, prefix)}
    IN  /\ calls[i].pc = "idle"
        /\ hashes' = MapDelete(hashes, toDelete)
        /\ calls' = [calls EXCEPT ![i] =
               IF toDelete = {} THEN DoneCall
               ELSE [pc |-> "persist", op |-> "Delete", keys |-> toDelete, hash |-> <<>>]]
        /\ UNCHANGED <<db, clean, failures, outsideRace>>

\* the durable write of a call, after t.mu was released: db.Set, or
\* db.Delete of one of the keys
Persist(i, key) ==
    /\ calls[i].pc = "persist"
    /\ key \in calls[i].keys
    /\ \E dbOk \in IOResults :
          /\ db' = IF ~dbOk THEN db
                   ELSE IF calls[i].op = "Set" THEN MapSet(db, key, calls[i].hash)
                   ELSE MapDelete(db, {key})
          /\ clean' = (clean /\ dbOk)
          /\ failures' = Fail(<<dbOk>>)
    /\ calls' = [calls EXCEPT ![i] = AfterWrite(calls[i], key)]
    /\ UNCHANGED <<hashes, outsideRace>>

InitRace == calls = [i \in 1..MaxCalls |-> IdleCall]

NextRace ==
    \/ \E i \in 1..MaxCalls, t \in Triples, data \in Contents : SetHashLocked(i, t, data)
    \/ \E i \in 1..MaxCalls, t \in Triples : ForgetFileLocked(i, t)
    \/ \E i \in 1..MaxCalls, sc \in Scopes : ForgetSessionLocked(i, sc[1], sc[2])
    \/ \E i \in 1..MaxCalls, t \in Triples : Persist(i, makeKey(t[1], t[2], t[3]))

(***************************************************************************)
(* The notification channel of one server: notification.Manager and the    *)
(* api.NotificationClient it owns.  The goroutines are the readLoop of     *)
(* every connection dialled, the reconnectLoops started by the error       *)
(* handler, the pollLoop, and the callers of Manager.Reconnect (the token  *)
(* manager, on every new token) and Manager.Disconnect (the application).  *)
(* A step is what a goroutine does between two points where another one    *)
(* can see or change the fields it uses.  The three callbacks of the       *)
(* manager are set before the first connection.  Backoffs are in seconds.  *)
(***************************************************************************)
InitialBackoff == 5
MaxBackoff == 60
BackoffFactor == 2
\* how many connections are dialled with success
MaxConns == 2
\* how many reconnectLoop goroutines are started
MaxLoops == 1
\* how many times Manager.Reconnect is called
MaxReconnects == 2
\* how many frames the server sends
MaxFrames == 1
\* how many attempts of one reconnectLoop the server may refuse before it
\* accepts one: when the channel runs with everything else, and when the
\* backoff is observed
MaxTries == 2
MaxDelays == 6

Min(a, b) == IF a < b THEN a ELSE b

\* what notifyConnectionChange hands to onConnectionChange
Change(isConnected) == IF isConnected THEN "connected" ELSE "disconnected"

\* a callback invoked when Disconnect has returned is remembered
Late(kind) == IF disconnectNotif = "returned" THEN late \cup {kind} ELSE late

\* the connection nc.conn is up: dialled, and neither closed nor broken since
SocketUp == nc.conn # 0 /\ socks[nc.conn] = "open"

\* reconnectWg is zero: every reconnectLoop started has returned
reconnectWgZero == \A l \in DOMAIN loops : loops[l].pc = "exited"

\* no goroutine is about to change what the channel knows of its connection:
\* every readLoop and reconnectLoop has returned and no call is running
Quiet ==
    /\ \A r \in DOMAIN readers : readers[r].pc = "exited"
    /\ reconnectWgZero
    /\ reconnectCall.pc = "idle"
    /\ disconnectNotif = "idle"

NewLoop == [pc |-> "top", backoff |-> InitialBackoff, delays |-> <<>>, ch |-> 0]

NewReader(c) == [pc |-> "reading", conn |-> c, cause |-> "none"]

\* NotificationClient.Reconnect, first half, under nc.mu: the flag is set and
\* the existing connection is closed
clientReconnectClose ==
    /\ nc' = [nc EXCEPT !.reconnecting = TRUE, !.conn = 0, !.connected = FALSE,
                        !.done = "open"]
    /\ socks' = IF nc.conn # 0 /\ socks[nc.conn] = "open"
                THEN [socks EXCEPT ![nc.conn] = "reconnectClosed"]
                ELSE socks

\* NotificationClient.Reconnect, second half, after the 50 ms sleep: the flag
\* is cleared, then Connect dials under nc.mu unless nc.connected is set
clientConnected(ok) == nc.connected \/ ok

clientReconnectConnect(ok) ==
    IF nc.connected
    THEN /\ nc' = [nc EXCEPT !.reconnecting = FALSE]
         /\ UNCHANGED <<socks, readers>>
    ELSE IF ok
    THEN /\ Len(socks) < MaxConns
         /\ socks' = Append(socks, "open")
         /\ readers' = Append(readers, NewReader(Len(socks) + 1))
         /\ nc' = [nc EXCEPT !.reconnecting = FALSE, !.conn = Len(socks) + 1,
                             !.connected = TRUE]
    ELSE /\ nc' = [nc EXCEPT !.reconnecting = FALSE]
         /\ UNCHANGED <<socks, readers>>

\* stopReconnectLoop, first part: the channel is closed unless it already is
stopReconnectLoopClose == chans' = [chans EXCEPT ![nm.stopReconnect] = "closed"]

\* the error handler Manager.Connect and Manager.Reconnect install with
\* SetOnError: connected = false, notifyConnectionChange(false),
\* startReconnectLoop (which replaces a closed stop channel and starts a
\* reconnectLoop goroutine, whether or not one is running)
onErrorSilent ==
    UNCHANGED <<nm, chans, loops, lastChange, late>>

onError ==
    LET reset == chans[nm.stopReconnect] = "closed"
    IN  /\ Len(loops) < MaxLoops
        /\ nm' = [nm EXCEPT !.connected = FALSE,
                            !.stopReconnect = IF reset THEN Len(chans) + 1 ELSE @]
        /\ chans' = IF reset THEN Append(chans, "open") ELSE chans
        /\ loops' = Append(loops, NewLoop)
        /\ lastChange' = Change(FALSE)
        /\ late' = Late("connection")

\* ---- the server and the network
\* the server sends a close frame with code normal closure or going away
ServerClose(c) ==
    /\ c \in DOMAIN socks
    /\ socks[c] = "open"
    /\ socks' = [socks EXCEPT ![c] = "serverClosed"]
    /\ UNCHANGED <<nc, nm, readers, chans, loops, poll, reconnectCall, disconnectNotif,
                   frames, late, lastPoll, lastChange, outsideNotif>>

\* the connection fails: a network error, an abnormal close, or no frame
\* within pongWait
ConnBreak(c) ==
    /\ c \in DOMAIN socks
    /\ socks[c] = "open"
    /\ socks' = [socks EXCEPT ![c] = "broken"]
    /\ UNCHANGED <<nc, nm, readers, chans, loops, poll, reconnectCall, disconnectNotif,
                   frames, late, lastPoll, lastChange, outsideNotif>>

\* ---- readLoop
\* the top of the loop: done closed or no connection ends it, else it reads
\* from the connection nc.conn holds now
readLoopTop(rd) ==
    IF nc.done = "closed" \/ nc.conn = 0
    THEN [rd EXCEPT !.pc = "returning"]
    ELSE [rd EXCEPT !.pc = "reading", !.conn = nc.conn]

\* ReadMessage returns a frame
readFrame(r) ==
    /\ r \in DOMAIN readers
    /\ readers[r].pc = "reading"
    /\ socks[readers[r].conn] = "open"
    /\ frames < MaxFrames
    /\ frames' = frames + 1
    /\ readers' = [readers EXCEPT ![r].pc = "frame"]
    /\ UNCHANGED <<nc, nm, socks, chans, loops, poll, reconnectCall, disconnectNotif,
                   late, lastPoll, lastChange, outsideNotif>>

\* the frame is parsed and handed to onNotify; the loop goes round
readNotify(r) ==
    /\ r \in DOMAIN readers
    /\ readers[r].pc = "frame"
    /\ late' = Late("notification")
    /\ readers' = [readers EXCEPT ![r] = readLoopTop(@)]
    /\ UNCHANGED <<nc, nm, socks, chans, loops, poll, reconnectCall, disconnectNotif,
                   frames, lastPoll, lastChange, outsideNotif>>

\* ReadMessage returns the server's close frame: normal termination
readCloseAsError(r) ==
    /\ r \in DOMAIN readers
    /\ readers[r].pc = "reading"
    /\ socks[readers[r].conn] = "serverClosed"
    /\ readers' = [readers EXCEPT
           ![r].pc = IF nc.done = "closed" THEN "returning" ELSE "checked",
           ![r].cause = "serverClosed"]
    /\ UNCHANGED <<nc, nm, socks, chans, loops, poll, reconnectCall, disconnectNotif,
                   frames, late, lastPoll, lastChange, outsideNotif>>

readClose(r) ==
    /\ r \in DOMAIN readers
    /\ readers[r].pc = "reading"
    /\ socks[readers[r].conn] = "serverClosed"
    /\ readers' = [readers EXCEPT ![r].pc = "returning", ![r].cause = "serverClosed"]
    /\ UNCHANGED <<nc, nm, socks, chans, loops, poll, reconnectCall, disconnectNotif,
                   frames, late, lastPoll, lastChange, outsideNotif>>

\* ReadMessage returns any other error; a closed done channel ends the loop
readError(r) ==
    /\ r \in DOMAIN readers
    /\ readers[r].pc = "reading"
    /\ socks[readers[r].conn] \in {"broken", "closed", "reconnectClosed"}
    /\ readers' = [readers EXCEPT
           ![r].pc = IF nc.done = "closed" THEN "returning" ELSE "checked",
           ![r].cause = socks[readers[r].conn]]
    /\ UNCHANGED <<nc, nm, socks, chans, loops, poll, reconnectCall, disconnectNotif,
                   frames, late, lastPoll, lastChange, outsideNotif>>

\* the reconnecting flag is read under nc.mu; onError is called unless it is set
readFailed(r) ==
    /\ r \in DOMAIN readers
    /\ readers[r].pc = "checked"
    /\ IF ~nc.reconnecting /\ nc.onError
       THEN onError
       ELSE onErrorSilent
    /\ readers' = [readers EXCEPT ![r].pc = "returning"]
    /\ UNCHANGED <<nc, socks, poll, reconnectCall, disconnectNotif, frames, lastPoll,
                   outsideNotif>>

\* the deferred function of readLoop: connected = false under nc.mu
readReturn(r) ==
    /\ r \in DOMAIN readers
    /\ readers[r].pc = "returning"
    /\ nc' = [nc EXCEPT !.connected = FALSE]
    /\ readers' = [readers EXCEPT ![r].pc = "exited"]
    /\ UNCHANGED <<nm, socks, chans, loops, poll, reconnectCall, disconnectNotif, frames,
                   late, lastPoll, lastChange, outsideNotif>>

\* ---- Manager.Reconnect(token), called for every token the token manager gets
\* stopReconnectLoop closes the stop channel
Reconnect ==
    /\ reconnectCall.pc = "idle"
    /\ reconnectCall.n < MaxReconnects
    /\ disconnectNotif = "idle"
    /\ stopReconnectLoopClose
    /\ reconnectCall' = [reconnectCall EXCEPT !.pc = "wait"]
    /\ UNCHANGED <<nc, nm, socks, readers, loops, poll, disconnectNotif, frames, late,
                   lastPoll, lastChange, outsideNotif>>

\* reconnectWg.Wait returns
ReconnectWait ==
    /\ reconnectCall.pc = "wait"
    /\ reconnectWgZero
    /\ reconnectCall' = [reconnectCall EXCEPT !.pc = "reset"]
    /\ UNCHANGED <<nc, nm, socks, readers, chans, loops, poll, disconnectNotif, frames,
                   late, lastPoll, lastChange, outsideNotif>>

\* a new stop channel is made; the token is stored and the error handler set
ReconnectStore ==
    /\ reconnectCall.pc = "reset"
    /\ chans' = Append(chans, "open")
    /\ nm' = [nm EXCEPT !.stopReconnect = Len(chans) + 1, !.token = reconnectCall.n + 1]
    /\ nc' = [nc EXCEPT !.onError = TRUE]
    /\ reconnectCall' = [reconnectCall EXCEPT !.pc = "client"]
    /\ UNCHANGED <<socks, readers, loops, poll, disconnectNotif, frames, late, lastPoll, lastChange, outsideNotif>>

ReconnectClose ==
    /\ reconnectCall.pc = "client"
    /\ clientReconnectClose
    /\ reconnectCall' = [reconnectCall EXCEPT !.pc = "sleep"]
    /\ UNCHANGED <<nm, readers, chans, loops, poll, disconnectNotif, frames, late,
                   lastPoll, lastChange, outsideNotif>>

ReconnectConnect(ok) ==
    /\ reconnectCall.pc = "sleep"
    /\ clientReconnectConnect(ok)
    /\ reconnectCall' = [reconnectCall EXCEPT !.pc = "result", !.ok = clientConnected(ok)]
    /\ UNCHANGED <<nm, chans, loops, poll, disconnectNotif, frames, late, lastPoll, lastChange, outsideNotif>>

\* the result is stored in m.connected and delivered to onConnectionChange
ReconnectReturn ==
    /\ reconnectCall.pc = "result"
    /\ nm' = [nm EXCEPT !.connected = reconnectCall.ok]
    /\ lastChange' = Change(reconnectCall.ok)
    /\ late' = Late("connection")
    /\ reconnectCall' = [pc |-> "idle", n |-> reconnectCall.n + 1, ok |-> FALSE]
    /\ UNCHANGED <<nc, socks, readers, chans, loops, poll, disconnectNotif, frames,
                   lastPoll, outsideNotif>>

\* ---- reconnectLoop
\* the top of the loop: a closed stop channel, m.connected or an empty token
\* end it; else it waits for the stop channel or the backoff timer
reconnectLoopTop(l) ==
    /\ l \in DOMAIN loops
    /\ loops[l].pc = "top"
    /\ loops' = [loops EXCEPT ![l] =
           IF chans[nm.stopReconnect] = "closed" \/ nm.connected \/ nm.token = 0
           THEN [@ EXCEPT !.pc = "exited"]
           ELSE [@ EXCEPT !.pc = "waiting", !.ch = nm.stopReconnect]]
    /\ UNCHANGED <<nc, nm, socks, readers, chans, poll, reconnectCall, disconnectNotif,
                   frames, late, lastPoll, lastChange, outsideNotif>>

\* the stop channel it waits on is closed
reconnectLoopStopped(l) ==
    /\ l \in DOMAIN loops
    /\ loops[l].pc = "waiting"
    /\ chans[loops[l].ch] = "closed"
    /\ loops' = [loops EXCEPT ![l].pc = "exited"]
    /\ UNCHANGED <<nc, nm, socks, readers, chans, poll, reconnectCall, disconnectNotif,
                   frames, late, lastPoll, lastChange, outsideNotif>>

\* the backoff timer fires
reconnectLoopWake(l) ==
    /\ l \in DOMAIN loops
    /\ loops[l].pc = "waiting"
    /\ chans[loops[l].ch] = "open"
    /\ loops' = [loops EXCEPT ![l].pc = "attempt",
                              ![l].delays = Append(@, loops[l].backoff)]
    /\ UNCHANGED <<nc, nm, socks, readers, chans, poll, reconnectCall, disconnectNotif,
                   frames, late, lastPoll, lastChange, outsideNotif>>

reconnectLoopClose(l) ==
    /\ l \in DOMAIN loops
    /\ loops[l].pc = "attempt"
    /\ clientReconnectClose
    /\ loops' = [loops EXCEPT ![l].pc = "sleep"]
    /\ UNCHANGED <<nm, readers, chans, poll, reconnectCall, disconnectNotif, frames, late,
                   lastPoll, lastChange, outsideNotif>>

\* the next backoff after a failed attempt
increaseBackoffUncapped(backoff) == backoff * BackoffFactor

increaseBackoff(backoff) == Min(backoff * BackoffFactor, MaxBackoff)

reconnectLoopConnect(l, ok, tries) ==
    /\ l \in DOMAIN loops
    /\ loops[l].pc = "sleep"
    /\ ok \/ Len(loops[l].delays) < tries
    /\ clientReconnectConnect(ok)
    /\ loops' = [loops EXCEPT ![l] =
           IF clientConnected(ok)
           THEN [@ EXCEPT !.pc = "connected"]
           ELSE [@ EXCEPT !.pc = "top", !.backoff = increaseBackoff(@)]]
    /\ UNCHANGED <<nm, chans, poll, reconnectCall, disconnectNotif, frames, late,
                   lastPoll, lastChange, outsideNotif>>

\* success: connected = true, notifyConnectionChange(true), return
reconnectLoopSuccess(l) ==
    /\ l \in DOMAIN loops
    /\ loops[l].pc = "connected"
    /\ nm' = [nm EXCEPT !.connected = TRUE]
    /\ lastChange' = Change(TRUE)
    /\ late' = Late("connection")
    /\ loops' = [loops EXCEPT ![l].pc = "exited"]
    /\ UNCHANGED <<nc, socks, readers, chans, poll, reconnectCall, disconnectNotif, frames,
                   lastPoll, outsideNotif>>

\* ---- polling
\* App.Connect starts polling once Manager.Reconnect has returned for the
\* first token
StartPolling ==
    /\ poll = "none"
    /\ reconnectCall.n >= 1
    /\ disconnectNotif = "idle"
    /\ poll' = "running"
    /\ nm' = [nm EXCEPT !.stopPolling = "open"]
    /\ UNCHANGED <<nc, socks, readers, chans, loops, reconnectCall, disconnectNotif, frames,
                   late, lastPoll, lastChange, outsideNotif>>

\* the ticker fires: onPollFallback is called unless m.connected is set
pollCallback(wsConnected) == ~wsConnected

pollLoopTick ==
    /\ poll = "running"
    /\ lastPoll' = [ticked |-> TRUE, called |-> pollCallback(nm.connected),
                    up |-> SocketUp, quiet |-> Quiet]
    /\ late' = IF pollCallback(nm.connected) THEN Late("poll") ELSE late
    /\ UNCHANGED <<nc, nm, socks, readers, chans, loops, poll, reconnectCall,
                   disconnectNotif, frames, lastChange, outsideNotif>>

pollLoopStopped ==
    /\ poll = "running"
    /\ nm.stopPolling = "closed"
    /\ poll' = "exited"
    /\ UNCHANGED <<nc, nm, socks, readers, chans, loops, reconnectCall, disconnectNotif,
                   frames, late, lastPoll, lastChange, outsideNotif>>

\* ---- Manager.Disconnect, called by App.Disconnect and App.shutdown once
\* App.Connect has stored the manager
Disconnect ==
    /\ disconnectNotif = "idle"
    /\ poll = "running"
    /\ stopReconnectLoopClose
    /\ disconnectNotif' = "wait"
    /\ UNCHANGED <<nc, nm, socks, readers, loops, poll, reconnectCall, frames, late,
                   lastPoll, lastChange, outsideNotif>>

\* reconnectWg.Wait returns
DisconnectWait ==
    /\ disconnectNotif = "wait"
    /\ reconnectWgZero
    /\ disconnectNotif' = "reset"
    /\ UNCHANGED <<nc, nm, socks, readers, chans, loops, poll, reconnectCall, frames, late,
                   lastPoll, lastChange, outsideNotif>>

\* a new stop channel is made; StopPolling closes stopPolling
DisconnectStopPolling ==
    /\ disconnectNotif = "reset"
    /\ chans' = Append(chans, "open")
    /\ nm' = [nm EXCEPT !.stopReconnect = Len(chans) + 1, !.stopPolling = "closed"]
    /\ disconnectNotif' = "pollWait"
    /\ UNCHANGED <<nc, socks, readers, loops, poll, reconnectCall, frames, late,
                   lastPoll, lastChange, outsideNotif>>

\* NotificationClient.Close under nc.mu: nothing unless connected; else done
\* is closed and the connection is closed
Close ==
    IF ~nc.connected
    THEN UNCHANGED <<nc, socks>>
    ELSE /\ nc' = [nc EXCEPT !.connected = FALSE, !.done = "closed", !.conn = 0]
         /\ socks' = IF nc.conn # 0 /\ socks[nc.conn] = "open"
                     THEN [socks EXCEPT ![nc.conn] = "closed"]
                     ELSE socks

\* pollWg.Wait returns; the client is closed, connected and token are cleared
DisconnectReturnsNotif ==
    /\ disconnectNotif = "pollWait"
    /\ poll = "exited"
    /\ Close
    /\ nm' = [nm EXCEPT !.connected = FALSE, !.token = 0]
    /\ disconnectNotif' = "returned"
    /\ UNCHANGED <<readers, chans, loops, poll, reconnectCall, frames, late, lastPoll, lastChange, outsideNotif>>

InitNotif ==
    /\ nc = [conn |-> 0, connected |-> FALSE, done |-> "open", reconnecting |-> FALSE,
             onError |-> FALSE]
    /\ nm = [connected |-> FALSE, token |-> 0, stopReconnect |-> 1, stopPolling |-> "open"]
    /\ socks = <<>>
    /\ readers = <<>>
    /\ chans = <<"open">>
    /\ loops = <<>>
    /\ poll = "none"
    /\ reconnectCall = [pc |-> "idle", n |-> 0, ok |-> FALSE]
    /\ disconnectNotif = "idle"
    /\ frames = 0
    /\ late = {}
    /\ lastPoll = [ticked |-> FALSE, called |-> FALSE, up |-> FALSE, quiet |-> FALSE]
    /\ lastChange = "none"

\* one connection that breaks, the reconnectLoop the error handler starts,
\* and a Disconnect that stops it: the channel is connected once, the server
\* sends nothing and closes nothing, and every connection but the last one
\* the bound allows may break
NextBackoff ==
    \/ \E c \in 1..MaxConns - 1 : ConnBreak(c)
    \/ \E r \in 1..MaxConns : readError(r)
    \/ \E r \in 1..MaxConns : readFailed(r)
    \/ \E r \in 1..MaxConns : readReturn(r)
    \/ (reconnectCall.n = 0 /\ Reconnect)
    \/ ReconnectWait
    \/ ReconnectStore
    \/ ReconnectClose
    \/ \E ok \in BOOLEAN : ReconnectConnect(ok)
    \/ ReconnectReturn
    \/ \E l \in 1..MaxLoops : reconnectLoopTop(l)
    \/ \E l \in 1..MaxLoops : reconnectLoopStopped(l)
    \/ \E l \in 1..MaxLoops : reconnectLoopWake(l)
    \/ \E l \in 1..MaxLoops : reconnectLoopClose(l)
    \/ \E l \in 1..MaxLoops, ok \in BOOLEAN : reconnectLoopConnect(l, ok, MaxDelays)
    \/ \E l \in 1..MaxLoops : reconnectLoopSuccess(l)
    \/ StartPolling
    \/ pollLoopStopped
    \/ Disconnect
    \/ DisconnectWait
    \/ DisconnectStopPolling
    \/ DisconnectReturnsNotif

\* the token manager gets new tokens and calls Manager.Reconnect for each,
\* while connections break; nothing disconnects the channel
NextReconnect ==
    \/ \E c \in 1..MaxConns : ConnBreak(c)
    \/ \E r \in 1..MaxConns : readError(r)
    \/ \E r \in 1..MaxConns : readFailed(r)
    \/ \E r \in 1..MaxConns : readReturn(r)
    \/ Reconnect
    \/ ReconnectWait
    \/ ReconnectStore
    \/ ReconnectClose
    \/ \E ok \in BOOLEAN : ReconnectConnect(ok)
    \/ ReconnectReturn
    \/ \E l \in 1..MaxLoops : reconnectLoopTop(l)
    \/ \E l \in 1..MaxLoops : reconnectLoopStopped(l)
    \/ \E l \in 1..MaxLoops : reconnectLoopWake(l)
    \/ \E l \in 1..MaxLoops : reconnectLoopClose(l)
    \/ \E l \in 1..MaxLoops, ok \in BOOLEAN : reconnectLoopConnect(l, ok, MaxTries)
    \/ \E l \in 1..MaxLoops : reconnectLoopSuccess(l)

\* the token manager calls Manager.Reconnect with every new token while the
\* server sends frames and connections break: a readLoop can be in the
\* notification callback, or not yet scheduled, when its connection is replaced
NextReaders ==
    \/ \E c \in 1..MaxConns : ConnBreak(c)
    \/ \E r \in 1..MaxConns : readFrame(r)
    \/ \E r \in 1..MaxConns : readNotify(r)
    \/ \E r \in 1..MaxConns : readError(r)
    \/ \E r \in 1..MaxConns : readFailed(r)
    \/ \E r \in 1..MaxConns : readReturn(r)
    \/ Reconnect
    \/ ReconnectWait
    \/ ReconnectStore
    \/ ReconnectClose
    \/ \E ok \in BOOLEAN : ReconnectConnect(ok)
    \/ ReconnectReturn
    \/ \E l \in 1..MaxLoops : reconnectLoopTop(l)
    \/ \E l \in 1..MaxLoops : reconnectLoopStopped(l)
    \/ \E l \in 1..MaxLoops : reconnectLoopWake(l)
    \/ \E l \in 1..MaxLoops : reconnectLoopClose(l)
    \/ \E l \in 1..MaxLoops, ok \in BOOLEAN : reconnectLoopConnect(l, ok, MaxTries)
    \/ \E l \in 1..MaxLoops : reconnectLoopSuccess(l)

NextNotif ==
    \/ \E c \in 1..MaxConns : ServerClose(c)
    \/ \E c \in 1..MaxConns : ConnBreak(c)
    \/ \E r \in 1..MaxConns : readFrame(r)
    \/ \E r \in 1..MaxConns : readNotify(r)
    \/ \E r \in 1..MaxConns : readClose(r)
    \/ \E r \in 1..MaxConns : readError(r)
    \/ \E r \in 1..MaxConns : readFailed(r)
    \/ \E r \in 1..MaxConns : readReturn(r)
    \/ (reconnectCall.n = 0 /\ Reconnect)
    \/ ReconnectWait
    \/ ReconnectStore
    \/ ReconnectClose
    \/ \E ok \in BOOLEAN : ReconnectConnect(ok)
    \/ ReconnectReturn
    \/ \E l \in 1..MaxLoops : reconnectLoopTop(l)
    \/ \E l \in 1..MaxLoops : reconnectLoopStopped(l)
    \/ \E l \in 1..MaxLoops : reconnectLoopWake(l)
    \/ \E l \in 1..MaxLoops : reconnectLoopClose(l)
    \/ \E l \in 1..MaxLoops, ok \in BOOLEAN : reconnectLoopConnect(l, ok, MaxTries)
    \/ \E l \in 1..MaxLoops : reconnectLoopSuccess(l)
    \/ StartPolling
    \/ pollLoopTick
    \/ pollLoopStopped
    \/ Disconnect
    \/ DisconnectWait
    \/ DisconnectStopPolling
    \/ DisconnectReturnsNotif

(***************************************************************************)
(* The watchers of one server as App creates and destroys them.  A session *)
(* notification with action "updated" starts a checkAndStartMonitoring     *)
(* goroutine, one with action "deleted" an archiveDeletedSession           *)
(* goroutine; QuitSession and Disconnect are calls of the user interface.  *)
(* The run starts when App.Connect has stored the client and the managers. *)
(* config.EnsureSessionGameDir creates the game directory, so Start finds  *)
(* a directory whatever happened to it before.                             *)
(***************************************************************************)
\* how many checkAndStartMonitoring goroutines run
MaxChecks == 2

NoCheck == [pc |-> "none", id |-> <<>>, state |-> "none", ready |-> FALSE, watched |-> FALSE]

\* App.clients and App.authManagers hold the server's client and token manager
ManagersStored == appDisconnect # "returned"

\* auth.Manager.Disconnect has run: its context is cancelled, userInfo is nil
AuthDisconnected == appDisconnect \in {"disconnected", "returned"}

\* checkAndStartMonitoring: the client and the token manager are looked up
\* under a.mu; without them the goroutine returns
checkLookup(i, id) ==
    /\ checks[i].pc = "none"
    /\ checks' = [checks EXCEPT ![i].id = id,
                                ![i].pc = IF ManagersStored THEN "session" ELSE "done"]
    /\ UNCHANGED <<quitCall, ended, orderMonitors, appDisconnect, coordVars, outsideMonitor>>

\* client.GetSession returns: an error, or a session that is not started,
\* ends the check
checkGetSession(i, ok, state, ready) ==
    /\ checks[i].pc = "session"
    /\ checks' = [checks EXCEPT ![i] =
           IF AuthDisconnected \/ ~ok THEN [@ EXCEPT !.pc = "done"]
           ELSE [@ EXCEPT !.state = state, !.ready = ready,
                          !.pc = IF state = "started" THEN "user" ELSE "done"]]
    /\ UNCHANGED <<quitCall, ended, orderMonitors, appDisconnect, coordVars, outsideMonitor>>

\* authMgr.GetUserInfo, then the roster is searched for the local user's
\* entry with Ready set
checkReadyPlayer(i) ==
    /\ checks[i].pc = "user"
    /\ checks' = [checks EXCEPT ![i].pc =
           IF AuthDisconnected \/ ~checks[i].ready THEN "done" ELSE "monitor"]
    /\ UNCHANGED <<quitCall, ended, orderMonitors, appDisconnect, coordVars, outsideMonitor>>

\* startMonitoringSession, under a.mu: the server's coordinator is taken from
\* App.orderMonitors, or made and stored there
startMonitoringSessionGet(i) ==
    /\ checks[i].pc = "monitor"
    /\ orderMonitors' = TRUE
    /\ checks' = [checks EXCEPT ![i].pc = "watch"]
    /\ UNCHANGED <<quitCall, ended, appDisconnect, coordVars, outsideMonitor>>

\* startMonitoringSession: EnsureSessionGameDir, then Manager.Watch
startMonitoringSessionWatch(i, dirOk) ==
    /\ checks[i].pc = "watch"
    /\ IF dirOk
       THEN doWatch(checks[i].id)
       ELSE UNCHANGED <<registry, pool, wanted, watchRet>>
    /\ checks' = [checks EXCEPT ![i].pc = "done", ![i].watched = dirOk]
    /\ UNCHANGED <<quitCall, ended, orderMonitors, appDisconnect, dirs, outsideMonitor>>

\* App.QuitSession: client.QuitSession returns
QuitSession(id, ok) ==
    /\ quitCall.pc = "idle"
    /\ ended[id] = "no"
    /\ quitCall' = [pc |-> IF ManagersStored /\ ~AuthDisconnected /\ ok
                           THEN "unwatch" ELSE "failed",
                    id |-> id]
    /\ UNCHANGED <<checks, ended, orderMonitors, appDisconnect, coordVars, outsideMonitor>>

\* App.QuitSession after the request: Unwatch on the server's coordinator if
\* there is one (ForgetSession finds no fingerprint in the empty store)
QuitSessionUnwatch ==
    /\ quitCall.pc = "unwatch"
    /\ IF orderMonitors
       THEN doUnwatch(quitCall.id)
       ELSE UNCHANGED <<registry, pool, wanted, watchRet>>
    /\ ended' = [ended EXCEPT ![quitCall.id] = "quit"]
    /\ quitCall' = [quitCall EXCEPT !.pc = "returned"]
    /\ UNCHANGED <<checks, orderMonitors, appDisconnect, dirs, outsideMonitor>>

\* archiveDeletedSession, run for a delete notification: the session's
\* directory is archived; the coordinator is not called
archiveDeletedSession(id) ==
    /\ ended[id] = "no"
    /\ ended' = [ended EXCEPT ![id] = "deleted"]
    /\ UNCHANGED <<checks, quitCall, orderMonitors, appDisconnect, coordVars, outsideMonitor>>

\* App.Disconnect, under a.mu: the managers are read from the maps
AppDisconnectRead ==
    /\ appDisconnect = "idle"
    /\ appDisconnect' = IF orderMonitors THEN "monitor" ELSE "noMonitor"
    /\ UNCHANGED <<checks, quitCall, ended, orderMonitors, coordVars, outsideMonitor>>

\* orderMon.Stop(), if a coordinator was read
AppDisconnectStop ==
    /\ appDisconnect \in {"monitor", "noMonitor"}
    /\ IF appDisconnect = "monitor"
       THEN doStop
       ELSE UNCHANGED <<registry, pool, wanted, watchRet>>
    /\ appDisconnect' = "stopped"
    /\ UNCHANGED <<checks, quitCall, ended, orderMonitors, dirs, outsideMonitor>>

\* notifMgr.Disconnect() and authMgr.Disconnect()
AppDisconnectManagers ==
    /\ appDisconnect = "stopped"
    /\ appDisconnect' = "disconnected"
    /\ UNCHANGED <<checks, quitCall, ended, orderMonitors, coordVars, outsideMonitor>>

\* under a.mu: the managers, the coordinator and the client leave the maps
AppDisconnectCleanup ==
    /\ appDisconnect = "disconnected"
    /\ orderMonitors' = FALSE
    /\ appDisconnect' = "returned"
    /\ UNCHANGED <<checks, quitCall, ended, coordVars, outsideMonitor>>

InitMonitor ==
    /\ checks = [i \in 1..MaxChecks |-> NoCheck]
    /\ quitCall = [pc |-> "idle", id |-> <<>>]
    /\ ended = [id \in WatchIds |-> "no"]
    /\ orderMonitors = FALSE
    /\ appDisconnect = "idle"

NextMonitor ==
    \/ \E i \in 1..MaxChecks, id \in WatchIds : checkLookup(i, id)
    \/ \E i \in 1..MaxChecks, ok \in BOOLEAN, state \in {"pending", "started"},
          ready \in BOOLEAN : checkGetSession(i, ok, state, ready)
    \/ \E i \in 1..MaxChecks : checkReadyPlayer(i)
    \/ \E i \in 1..MaxChecks : startMonitoringSessionGet(i)
    \/ \E i \in 1..MaxChecks, dirOk \in BOOLEAN : startMonitoringSessionWatch(i, dirOk)
    \/ \E id \in WatchIds, ok \in BOOLEAN : QuitSession(id, ok)
    \/ QuitSessionUnwatch
    \/ \E id \in WatchIds : archiveDeletedSession(id)
    \/ AppDisconnectRead
    \/ AppDisconnectStop
    \/ AppDisconnectManagers
    \/ AppDisconnectCleanup

(***************************************************************************)
(* The coordinator's lock.  Manager.mu is a sync.RWMutex: Lock waits until *)
(* no goroutine holds it, RLock waits while a goroutine holds it for       *)
(* writing or is waiting in Lock.  Every goroutine makes one pass: it is   *)
(* the timer goroutine of a watcher running submitWrapper, whose callback  *)
(* may call the coordinator, or it calls the coordinator directly.         *)
(***************************************************************************)
\* how many goroutines run
MaxGoroutines == 3

CoordOps == {"Watch", "Unwatch", "Stop", "WatchedSessions"}

NewGoroutine == [pc |-> "none", wrapper |-> FALSE, op |-> "none", id |-> <<>>]

\* goroutine g holds Manager.mu, for writing or for reading
Holds(g) == mMu.writer = g \/ g \in mMu.readers

LockPending == \E g \in 1..MaxGoroutines : gs[g].pc = "Lock"

\* what the goroutine does after its call of the coordinator was chosen
Calling(gr, op, id) ==
    [gr EXCEPT !.op = op, !.id = id,
               !.pc = CASE op = "none" -> "done"
                        [] op = "WatchedSessions" -> "RLock"
                        [] OTHER -> "Lock"]

\* submitWrapper: m.submitHandler returns, in the timer goroutine of a
\* watcher that was started
submitWrapperSubmit(g) ==
    /\ gs[g].pc = "none"
    /\ \E w \in DOMAIN pool : pool[w].started
    /\ gs' = [gs EXCEPT ![g].pc = "read", ![g].wrapper = TRUE]
    /\ UNCHANGED <<mMu, coordVars, outsideLock>>

\* a variant of submitWrapper that keeps the read lock while the callback runs
submitWrapperHoldsLock(g) ==
    /\ gs[g].pc = "read"
    /\ mMu.writer = 0 /\ ~LockPending
    /\ mMu' = [mMu EXCEPT !.readers = @ \cup {g}]
    /\ gs' = [gs EXCEPT ![g].pc = "callback"]
    /\ UNCHANGED <<coordVars, outsideLock>>

\* submitWrapper: RLock, callback := m.onOrderSubmitted, RUnlock; the
\* callback is then invoked
submitWrapperRead(g) ==
    /\ gs[g].pc = "read"
    /\ mMu.writer = 0 /\ ~LockPending
    /\ gs' = [gs EXCEPT ![g].pc = "callback"]
    /\ UNCHANGED <<mMu, coordVars, outsideLock>>

\* the callback calls a method of the coordinator, or none, and returns
callbackCalls(g, op, id) ==
    /\ gs[g].pc = "callback"
    /\ gs' = [gs EXCEPT ![g] = Calling(@, op, id)]
    /\ UNCHANGED <<mMu, coordVars, outsideLock>>

\* another goroutine (a check, QuitSession, Disconnect) calls a method
managerCall(g, op, id) ==
    /\ gs[g].pc = "none"
    /\ gs' = [gs EXCEPT ![g] = Calling(@, op, id)]
    /\ UNCHANGED <<mMu, coordVars, outsideLock>>

\* m.mu.Lock() returns
Lock(g) ==
    /\ gs[g].pc = "Lock"
    /\ mMu.writer = 0 /\ mMu.readers = {}
    /\ mMu' = [mMu EXCEPT !.writer = g]
    /\ gs' = [gs EXCEPT ![g].pc = "locked"]
    /\ UNCHANGED <<coordVars, outsideLock>>

\* m.mu.RLock() returns
RLock(g) ==
    /\ gs[g].pc = "RLock"
    /\ mMu.writer = 0 /\ ~LockPending
    /\ mMu' = [mMu EXCEPT !.readers = @ \cup {g}]
    /\ gs' = [gs EXCEPT ![g].pc = "rlocked"]
    /\ UNCHANGED <<coordVars, outsideLock>>

\* the body of Watch, Unwatch or Stop, and the deferred Unlock
lockedBody(g) ==
    /\ gs[g].pc = "locked"
    /\ CASE gs[g].op = "Watch" -> doWatch(gs[g].id)
         [] gs[g].op = "Unwatch" -> doUnwatch(gs[g].id)
         [] OTHER -> doStop
    /\ mMu' = [mMu EXCEPT !.writer = 0]
    /\ gs' = [gs EXCEPT ![g].pc = "done"]
    /\ UNCHANGED <<dirs, outsideLock>>

\* the body of WatchedSessions, and the deferred RUnlock
rlockedBody(g) ==
    /\ gs[g].pc = "rlocked"
    /\ watchRet' = Called("WatchedSessions", <<>>, WatchedSessions)
    /\ mMu' = [mMu EXCEPT !.readers = @ \ {g}]
    /\ gs' = [gs EXCEPT ![g].pc = "done"]
    /\ UNCHANGED <<registry, pool, dirs, wanted, outsideLock>>

InitLock ==
    /\ mMu = [writer |-> 0, readers |-> {}]
    /\ gs = [g \in 1..MaxGoroutines |-> NewGoroutine]

NextCallback ==
    \/ \E g \in 1..MaxGoroutines : submitWrapperSubmit(g)
    \/ \E g \in 1..MaxGoroutines : submitWrapperRead(g)
    \/ \E g \in 1..MaxGoroutines, op \in CoordOps \cup {"none"}, id \in WatchIds :
          callbackCalls(g, op, id)
    \/ \E g \in 1..MaxGoroutines, op \in CoordOps, id \in WatchIds : managerCall(g, op, id)
    \/ \E g \in 1..MaxGoroutines : Lock(g)
    \/ \E g \in 1..MaxGoroutines : RLock(g)
    \/ \E g \in 1..MaxGoroutines : lockedBody(g)
    \/ \E g \in 1..MaxGoroutines : rlockedBody(g)

(***************************************************************************)
(* The teardown of one connected server.  App.mu is not reentrant.  The    *)
(* callbacks App.Connect installs take it: the connection-state callback   *)
(* of the token manager for writing, the poll-fallback callback of the     *)
(* notification manager for reading.  App.Disconnect takes it for two      *)
(* short sections; App.RemoveServer holds it from its first manager call   *)
(* to its last.  No session is monitored and no reconnect loop runs.       *)
(***************************************************************************)
\* how many times a ticker fires: the poll ticker, the refresh ticker
MaxTicks == 2

TeardownOps == {"Disconnect", "RemoveServer"}

\* the method holds a.mu while it calls the managers
HoldsAppLock(op) == op = "RemoveServer"

\* the call is inside orderMon.Stop, notifMgr.Disconnect or authMgr.Disconnect
InManagerCall ==
    teardown.pc \in {"stop", "stopPolling", "pollWait", "cancel", "authWait", "notify"}

\* StopPolling has closed m.stopPolling; Manager.Disconnect has cancelled ctx
StopPollingClosed == teardown.pc \in {"pollWait", "cancel", "authWait", "notify", "cleanup",
                                      "returned"}

CtxCancelled == teardown.pc \in {"authWait", "notify", "cleanup", "returned"}

\* a.mu.Lock() under RemoveServer, or the first locked section of Disconnect
\* (the managers are read from the maps)
teardownStart(op) ==
    /\ teardown.pc = "idle"
    /\ aMu = "free"
    /\ aMu' = IF HoldsAppLock(op) THEN "teardown" ELSE "free"
    /\ teardown' = [op |-> op, pc |-> "stop"]
    /\ UNCHANGED <<pollLoop, refresher, outsideTeardown>>

\* orderMon.Stop(): there is no coordinator unless a session was monitored
teardownStopMonitor ==
    /\ teardown.pc = "stop"
    /\ teardown' = [teardown EXCEPT !.pc = "stopPolling"]
    /\ UNCHANGED <<aMu, pollLoop, refresher, outsideTeardown>>

\* notifMgr.Disconnect: stopReconnectLoop, then StopPolling closes the channel
teardownStopPolling ==
    /\ teardown.pc = "stopPolling"
    /\ teardown' = [teardown EXCEPT !.pc = "pollWait"]
    /\ UNCHANGED <<aMu, pollLoop, refresher, outsideTeardown>>

\* pollWg.Wait returns; the client is closed
teardownPollWait ==
    /\ teardown.pc = "pollWait"
    /\ pollLoop.pc = "exited"
    /\ teardown' = [teardown EXCEPT !.pc = "cancel"]
    /\ UNCHANGED <<aMu, pollLoop, refresher, outsideTeardown>>

\* authMgr.Disconnect: m.cancel()
teardownCancel ==
    /\ teardown.pc = "cancel"
    /\ teardown' = [teardown EXCEPT !.pc = "authWait"]
    /\ UNCHANGED <<aMu, pollLoop, refresher, outsideTeardown>>

\* m.wg.Wait returns; connected = false, userInfo = nil
teardownAuthWait ==
    /\ teardown.pc = "authWait"
    /\ refresher.pc = "exited"
    /\ teardown' = [teardown EXCEPT !.pc = "notify"]
    /\ UNCHANGED <<aMu, pollLoop, refresher, outsideTeardown>>

\* notifyConnectionState(false, nil): the callback takes a.mu.Lock(), stores
\* the connection state and unlocks
teardownConnectionState ==
    /\ teardown.pc = "notify"
    /\ aMu = "free"
    /\ teardown' = [teardown EXCEPT !.pc = "cleanup"]
    /\ UNCHANGED <<aMu, pollLoop, refresher, outsideTeardown>>

\* the maps are cleaned: under the lock RemoveServer holds, or in the second
\* locked section of Disconnect; a.mu.Unlock()
teardownCleanup ==
    /\ teardown.pc = "cleanup"
    /\ aMu = IF HoldsAppLock(teardown.op) THEN "teardown" ELSE "free"
    /\ aMu' = "free"
    /\ teardown' = [teardown EXCEPT !.pc = "returned"]
    /\ UNCHANGED <<pollLoop, refresher, outsideTeardown>>

\* pollLoop: the ticker fires while the socket is down, the callback is called
pollLoopFallback ==
    /\ pollLoop.pc = "waiting"
    /\ pollLoop.ticks < MaxTicks
    /\ pollLoop' = [pc |-> "callback", ticks |-> pollLoop.ticks + 1]
    /\ UNCHANGED <<aMu, teardown, refresher, outsideTeardown>>

\* the poll-fallback callback: a.mu.RLock(), shuttingDown, RUnlock, the event
pollFallbackCallback ==
    /\ pollLoop.pc = "callback"
    /\ aMu = "free"
    /\ pollLoop' = [pollLoop EXCEPT !.pc = "waiting"]
    /\ UNCHANGED <<aMu, teardown, refresher, outsideTeardown>>

\* pollLoop: m.stopPolling is closed
pollLoopExit ==
    /\ pollLoop.pc = "waiting"
    /\ StopPollingClosed
    /\ pollLoop' = [pollLoop EXCEPT !.pc = "exited"]
    /\ UNCHANGED <<aMu, teardown, refresher, outsideTeardown>>

\* tokenRefreshLoop: the ticker fires and RefreshToken succeeds; the
\* token-refreshed callback (notifMgr.Reconnect) does not take a.mu
refreshLoopRefreshes ==
    /\ refresher.pc = "waiting"
    /\ refresher.ticks < MaxTicks
    /\ ~CtxCancelled
    /\ refresher' = [refresher EXCEPT !.ticks = @ + 1]
    /\ UNCHANGED <<aMu, teardown, pollLoop, outsideTeardown>>

\* tokenRefreshLoop: the ticker fires and RefreshToken fails (it does when
\* the context is cancelled); notifyConnectionState(false, err) is called
refreshLoopFails ==
    /\ refresher.pc = "waiting"
    /\ refresher.ticks < MaxTicks
    /\ refresher' = [pc |-> "notify", ticks |-> refresher.ticks + 1]
    /\ UNCHANGED <<aMu, teardown, pollLoop, outsideTeardown>>

\* the connection-state callback takes a.mu.Lock(); the loop then returns
refreshLoopConnectionState ==
    /\ refresher.pc = "notify"
    /\ aMu = "free"
    /\ refresher' = [refresher EXCEPT !.pc = "exited"]
    /\ UNCHANGED <<aMu, teardown, pollLoop, outsideTeardown>>

\* tokenRefreshLoop: the context is done
refreshLoopExit ==
    /\ refresher.pc = "waiting"
    /\ CtxCancelled
    /\ refresher' = [refresher EXCEPT !.pc = "exited"]
    /\ UNCHANGED <<aMu, teardown, pollLoop, outsideTeardown>>

InitTeardown ==
    /\ aMu = "free"
    /\ teardown = [op |-> "none", pc |-> "idle"]
    /\ pollLoop = [pc |-> "waiting", ticks |-> 0]
    /\ refresher = [pc |-> "waiting", ticks |-> 0]

NextTeardown ==
    \/ \E op \in TeardownOps : teardownStart(op)
    \/ teardownStopMonitor
    \/ teardownStopPolling
    \/ teardownPollWait
    \/ teardownCancel
    \/ teardownAuthWait
    \/ teardownConnectionState
    \/ teardownCleanup
    \/ pollLoopFallback
    \/ pollFallbackCallback
    \/ pollLoopExit
    \/ refreshLoopRefreshes
    \/ refreshLoopFails
    \/ refreshLoopConnectionState
    \/ refreshLoopExit

(***************************************************************************)
(* App.Disconnect on a connected server, with the token manager's refresh  *)
(* loop still running.  App.Disconnect calls orderMon.Stop, then           *)
(* notifMgr.Disconnect, then authMgr.Disconnect, which cancels the context *)
(* and waits for tokenRefreshLoop.  Until the context is cancelled the     *)
(* ticker of tokenRefreshLoop can fire; the loop then calls the            *)
(* token-refreshed callback, which is notifMgr.Reconnect(token).           *)
(***************************************************************************)
\* the context of the token manager is cancelled
RefreshStopped == appDisconnect \in {"cancelled", "disconnected", "returned"}

\* notifMgr.Disconnect() is called once the coordinator is stopped
AppDisconnectNotif ==
    /\ appDisconnect = "stopped"
    /\ Disconnect

\* authMgr.Disconnect: m.cancel()
AppDisconnectCancel ==
    /\ appDisconnect = "stopped"
    /\ disconnectNotif = "returned"
    /\ appDisconnect' = "cancelled"
    /\ UNCHANGED <<checks, quitCall, ended, orderMonitors, coordVars, outsideMonitor>>

\* authMgr.Disconnect: m.wg.Wait() returns when tokenRefreshLoop has; the loop
\* is not in the token-refreshed callback then
AppDisconnectAuthWait ==
    /\ appDisconnect = "cancelled"
    /\ reconnectCall.pc = "idle"
    /\ appDisconnect' = "disconnected"
    /\ UNCHANGED <<checks, quitCall, ended, orderMonitors, coordVars, outsideMonitor>>

\* the ticker of tokenRefreshLoop fires after notifMgr.Disconnect has returned
\* and before the context is cancelled: RefreshToken succeeds and
\* notifyTokenRefreshed calls notifMgr.Reconnect, whose first step is
\* stopReconnectLoop
tokenRefreshed ==
    /\ ~RefreshStopped
    /\ disconnectNotif = "returned"
    /\ reconnectCall.pc = "idle"
    /\ reconnectCall.n < MaxReconnects
    /\ stopReconnectLoopClose
    /\ reconnectCall' = [reconnectCall EXCEPT !.pc = "wait"]
    /\ UNCHANGED <<nc, nm, socks, readers, loops, poll, disconnectNotif, frames, late,
                   lastPoll, lastChange, outsideNotif>>

NextAppDisconnect ==
    \/ \E r \in 1..MaxConns : readFrame(r)
    \/ \E r \in 1..MaxConns : readNotify(r)
    \/ \E r \in 1..MaxConns : readError(r)
    \/ \E r \in 1..MaxConns : readFailed(r)
    \/ \E r \in 1..MaxConns : readReturn(r)
    \/ (reconnectCall.n = 0 /\ Reconnect)
    \/ tokenRefreshed
    \/ ReconnectWait
    \/ ReconnectStore
    \/ ReconnectClose
    \/ \E ok \in BOOLEAN : ReconnectConnect(ok)
    \/ ReconnectReturn
    \/ StartPolling
    \/ pollLoopTick
    \/ pollLoopStopped
    \/ AppDisconnectRead
    \/ AppDisconnectStop
    \/ AppDisconnectNotif
    \/ DisconnectWait
    \/ DisconnectStopPolling
    \/ DisconnectReturnsNotif
    \/ AppDisconnectCancel
    \/ AppDisconnectAuthWait
    \/ AppDisconnectCleanup

(***************************************************************************)
(* One notification channel under a sequence of Manager.Connect,           *)
(* Manager.Reconnect and Manager.Disconnect calls, made one after the      *)
(* other by the owner of the channel, while the readLoop and reconnectLoop *)
(* goroutines run.  No pollLoop is started.  Closing a closed Go channel   *)
(* panics, which ends the process.                                         *)
(***************************************************************************)
MaxChannelCalls == 3

\* the readLoop goroutine Connect starts: it has not reached its select yet
StartedReader(c) == [pc |-> "top", conn |-> c, cause |-> "none"]

\* NotificationClient.Connect under nc.mu: nothing if connected is set; else
\* it dials, stores the connection, sets connected and starts readLoop.  The
\* done channel is left as it is.
clientConnect(ok) ==
    IF nc.connected \/ ~ok
    THEN UNCHANGED <<nc, socks, readers>>
    ELSE /\ Len(socks) < MaxConns
         /\ socks' = Append(socks, "open")
         /\ readers' = Append(readers, StartedReader(Len(socks) + 1))
         /\ nc' = [nc EXCEPT !.conn = Len(socks) + 1, !.connected = TRUE]

\* NotificationClient.Close under nc.mu: nothing unless connected; else
\* connected is cleared and done is closed, which panics if done is closed
\* already; else the connection is closed
clientClose ==
    IF ~nc.connected
    THEN UNCHANGED <<nc, socks, panicked>>
    ELSE IF nc.done = "closed"
    THEN /\ nc' = [nc EXCEPT !.connected = FALSE]
         /\ panicked' = TRUE
         /\ UNCHANGED socks
    ELSE /\ nc' = [nc EXCEPT !.connected = FALSE, !.done = "closed", !.conn = 0]
         /\ socks' = IF nc.conn # 0 /\ socks[nc.conn] = "open"
                     THEN [socks EXCEPT ![nc.conn] = "closed"]
                     ELSE socks
         /\ UNCHANGED panicked

\* the first select of a readLoop
readLoopStart(r) ==
    /\ r \in DOMAIN readers
    /\ readers[r].pc = "top"
    /\ readers' = [readers EXCEPT ![r] = readLoopTop(@)]
    /\ UNCHANGED <<nc, nm, socks, chans, loops, poll, reconnectCall, disconnectNotif,
                   frames, late, lastPoll, lastChange, outsideNotif>>

\* Manager.Connect(token): the token is stored and the error handler set
channelConnect ==
    /\ ~panicked
    /\ channelCall.pc = "idle"
    /\ reconnectCall.pc = "idle"
    /\ channelCall.n < MaxChannelCalls
    /\ nm' = [nm EXCEPT !.token = channelCall.n + 1]
    /\ nc' = [nc EXCEPT !.onError = TRUE]
    /\ channelCall' = [channelCall EXCEPT !.pc = "connect"]
    /\ UNCHANGED <<socks, readers, chans, loops, poll, reconnectCall, disconnectNotif,
                   frames, late, lastPoll, lastChange, panicked, outsideChannel>>

\* client.Connect(token); its result is stored in m.connected and delivered
\* to onConnectionChange
channelConnectDial(ok) ==
    /\ ~panicked
    /\ channelCall.pc = "connect"
    /\ clientConnect(ok)
    /\ nm' = [nm EXCEPT !.connected = clientConnected(ok)]
    /\ lastChange' = Change(clientConnected(ok))
    /\ late' = Late("connection")
    /\ channelCall' = [pc |-> "idle", n |-> channelCall.n + 1]
    /\ UNCHANGED <<chans, loops, poll, reconnectCall, disconnectNotif, frames, lastPoll,
                   panicked, outsideChannel>>

\* Manager.Disconnect: stopReconnectLoop closes the stop channel
channelDisconnect ==
    /\ ~panicked
    /\ channelCall.pc = "idle"
    /\ reconnectCall.pc = "idle"
    /\ channelCall.n < MaxChannelCalls
    /\ stopReconnectLoopClose
    /\ channelCall' = [channelCall EXCEPT !.pc = "wait"]
    /\ UNCHANGED <<nc, nm, socks, readers, loops, poll, reconnectCall, disconnectNotif,
                   frames, late, lastPoll, lastChange, panicked, outsideChannel>>

\* reconnectWg.Wait returns and a new stop channel is made; StopPolling closes
\* stopPolling and has no pollLoop to wait for; the client is closed;
\* connected and token are cleared
channelDisconnectClose ==
    /\ ~panicked
    /\ channelCall.pc = "wait"
    /\ reconnectWgZero
    /\ chans' = Append(chans, "open")
    /\ clientClose
    /\ nm' = [nm EXCEPT !.stopReconnect = Len(chans) + 1, !.stopPolling = "closed",
                        !.connected = FALSE, !.token = 0]
    /\ channelCall' = [pc |-> "idle", n |-> channelCall.n + 1]
    /\ UNCHANGED <<readers, loops, poll, reconnectCall, disconnectNotif, frames, late,
                   lastPoll, lastChange, outsideChannel>>

InitChannel ==
    /\ channelCall = [pc |-> "idle", n |-> 0]
    /\ panicked = FALSE

NextChannel ==
    \/ \E c \in 1..MaxConns : ConnBreak(c)
    \/ \E r \in 1..MaxConns : readLoopStart(r)
    \/ \E r \in 1..MaxConns : readFrame(r)
    \/ \E r \in 1..MaxConns : readNotify(r)
    \/ \E r \in 1..MaxConns : readError(r)
    \/ \E r \in 1..MaxConns : readFailed(r)
    \/ \E r \in 1..MaxConns : readReturn(r)
    \/ channelConnect
    \/ \E ok \in BOOLEAN : channelConnectDial(ok)
    \/ (channelCall.pc = "idle" /\ reconnectCall.n = 0 /\ Reconnect)
    \/ ReconnectWait
    \/ ReconnectStore
    \/ ReconnectClose
    \/ \E ok \in BOOLEAN : ReconnectConnect(ok)
    \/ ReconnectReturn
    \/ \E l \in 1..MaxLoops : reconnectLoopTop(l)
    \/ \E l \in 1..MaxLoops : reconnectLoopStopped(l)
    \/ \E l \in 1..MaxLoops : reconnectLoopWake(l)
    \/ \E l \in 1..MaxLoops : reconnectLoopClose(l)
    \/ \E l \in 1..MaxLoops, ok \in BOOLEAN : reconnectLoopConnect(l, ok, MaxTries)
    \/ \E l \in 1..MaxLoops : reconnectLoopSuccess(l)
    \/ channelDisconnect
    \/ channelDisconnectClose

(***************************************************************************)
(* The names of the local player's files in the game directory of one      *)
(* started session.  GetSession returns the roster (session.Players), each *)
(* entry with its seat PlayerOrder (0-based) and its Ready flag; mine      *)
(* stands for UserProfileID == userInfo.User.ID.  The seats of a roster    *)
(* are 0..n-1, each taken once, in any order of the list.                  *)
(***************************************************************************)
MaxPlayers == 3

RECURSIVE Perms(_)
\* the sequences that hold every element of S once
Perms(S) ==
    IF S = {} THEN {<<>>}
    ELSE UNION {{<<x>> \o p : p \in Perms(S \ {x})} : x \in S}

Rosters ==
    UNION {{[i \in 1..n |-> [mine |-> i = me, PlayerOrder |-> seats[i], Ready |-> ready[i]]] :
               seats \in Perms(0..n - 1), me \in 1..n, ready \in [1..n -> BOOLEAN]} :
           n \in 1..MaxPlayers}

\* for playerIdx, player := range session.Players: the index (0-based) of the
\* first entry that is the local user's and ready; -1 if there is none
readyPlayerIdx(players) ==
    LET found == {i \in 1..Len(players) : players[i].mine /\ players[i].Ready}
    IN  IF found = {} THEN -1
        ELSE (CHOOSE i \in found : \A j \in found : i <= j) - 1

\* saveTurnFiles: playerOrder = int(player.PlayerOrder) + 1 of the first entry
\* that is the local user's; 0 if there is none
turnPlayerOrder(players) ==
    LET found == {i \in 1..Len(players) : players[i].mine}
    IN  IF found = {} THEN 0
        ELSE players[CHOOSE i \in found : \A j \in found : i <= j].PlayerOrder + 1

\* fmt.Sprintf("game.x%d", playerOrder+1), in SessionWatcher.orderFileName and
\* in rescanAndUploadPendingOrders
orderFileName(playerOrder) == <<"game.x">> \o Decimal(playerOrder + 1)

\* fmt.Sprintf("game.m%d", playerOrder)
turnFileName(playerOrder) == <<"game.m">> \o Decimal(playerOrder)

\* client.GetSession answers with the roster of the session
GetSessionPlayers(players) ==
    /\ roster = <<>>
    /\ roster' = players
    /\ UNCHANGED <<watched, rescanned, turnFile, outsideNaming>>

\* checkAndStartMonitoring and startMonitoringForServer: the index of the
\* local user's ready entry is passed to startMonitoringSession as
\* playerOrder, which stores it in WatchedSession.PlayerOrder
startMonitoringPlayer ==
    /\ roster # <<>>
    /\ watched = -1
    /\ readyPlayerIdx(roster) # -1
    /\ watched' = readyPlayerIdx(roster)
    /\ UNCHANGED <<roster, rescanned, turnFile, outsideNaming>>

\* rescanAndUploadPendingOrders, started by startMonitoringSession with the
\* same playerOrder
rescanOrderFile ==
    /\ watched # -1
    /\ rescanned = <<>>
    /\ rescanned' = orderFileName(watched)
    /\ UNCHANGED <<roster, watched, turnFile, outsideNaming>>

\* saveTurnFiles: the turn file is written unless the local user is not a
\* player of the session
saveTurnFile ==
    /\ roster # <<>>
    /\ turnFile = <<>>
    /\ turnPlayerOrder(roster) # 0
    /\ turnFile' = turnFileName(turnPlayerOrder(roster))
    /\ UNCHANGED <<roster, watched, rescanned, outsideNaming>>

InitNaming ==
    /\ roster = <<>>
    /\ watched = -1
    /\ rescanned = <<>>
    /\ turnFile = <<>>

NextNaming ==
    \/ \E players \in Rosters : GetSessionPlayers(players)
    \/ startMonitoringPlayer
    \/ rescanOrderFile
    \/ saveTurnFile

Init ==
    /\ InitSubmit /\ InitCoord /\ InitDebounce /\ InitTracker /\ InitAuth /\ InitRace
    /\ InitNotif /\ InitMonitor /\ InitLock /\ InitTeardown
    /\ InitChannel /\ InitNaming

SpecSubmit == Init /\ [][NextSubmit]_vars

SpecCoord == Init /\ [][NextCoord]_vars

\* the watcher is observed in a run that starts with an empty fingerprint store
InitWatcher == Init /\ db = <<>>

SpecDebounce == InitWatcher /\ [][NextDebounce]_vars

SpecTracker == Init /\ [][NextTracker]_vars

\* one live detection by a watcher while the store is also used for one
\* game file, with durable writes that may fail
StoreTriple == <<<<"s">>, <<"A">>, <<"f">>>>

NextStoreFailure ==
    \/ \E data \in Contents : SetHash(StoreTriple, data)
    \/ \E data \in Contents : WriteFileIfChanged(StoreTriple, data)
    \/ \E srv \in Servers, sess \in Sessions : ProcessOrderFile(1, srv, sess)
    \/ SubmitGetHash(1)
    \/ SubmitConflict(1)
    \/ SubmitLookupClient(1)
    \/ SubmitGetLatestTurn(1)
    \/ SubmitTurn(1)
    \/ SubmitSetHash(1)
    \/ SubmitPersist(1)
    \/ WrapperCallback(1)
    \/ \E srv \in Servers : RegisterClient(srv)
    \/ \E fn \in BOOLEAN : SetOnOrderSubmitted(fn)

(***************************************************************************)
(* Tracker.WriteFileIfChanged called by several goroutines at once for one *)
(* key and one file, as saveTurnFiles does for the files of a session.     *)
(* The call reads the stored hash under t.mu (GetHash), releases the lock, *)
(* writes the file, and then calls SetHash, which updates the map under    *)
(* t.mu and writes to the bucket after releasing it.  A goroutine whose    *)
(* call has returned may call again.                                       *)
(***************************************************************************)
\* the call returned (false, nil): the stored hash was the hash of its data
SkippedCall(hash) == [pc |-> "done", op |-> "Skip", keys |-> {}, hash |-> hash]

\* newHash := ComputeHash(data); storedHash := t.GetHash(...); equal hashes
\* end the call
writeIfChangedCompare(i, t, data) ==
    LET newHash == ComputeHash(data)
        storedHash == GetHash(hashes, t[1], t[2], t[3])
    IN  /\ calls[i].pc = "idle"
        /\ calls' = [calls EXCEPT ![i] =
               IF storedHash = newHash
               THEN SkippedCall(newHash)
               ELSE [pc |-> "write", op |-> "Set", keys |-> {makeKey(t[1], t[2], t[3])},
                     hash |-> newHash]]
        /\ UNCHANGED <<hashes, db, clean, failures, outsideRace>>

\* os.WriteFile(filePath, data, perm): an error ends the call
writeIfChangedWrite(i, t, data) ==
    /\ calls[i].pc = "write"
    /\ calls[i].hash = ComputeHash(data)
    /\ \E writeOk \in IOResults :
         IF writeOk
         THEN /\ files' = [files EXCEPT ![t[3]] = data]
              /\ calls' = [calls EXCEPT ![i].pc = "setHash"]
              /\ UNCHANGED failures
         ELSE /\ \E left \in {files[t[3]], "partial"} :
                    files' = [files EXCEPT ![t[3]] = left]
              /\ calls' = [calls EXCEPT ![i] = DoneCall]
              /\ failures' = failures + 1
    /\ UNCHANGED <<hashes, db, clean, outsideWriteRace>>

\* t.SetHash(serverURL, sessionID, filePath, newHash): the map is updated
\* under t.mu; the durable write follows
writeIfChangedSetHash(i) ==
    /\ calls[i].pc = "setHash"
    /\ \E key \in calls[i].keys : hashes' = MapSet(hashes, key, calls[i].hash)
    /\ calls' = [calls EXCEPT ![i].pc = "persist"]
    /\ UNCHANGED <<db, clean, failures, outsideRace>>

\* the goroutine is ready for its next call
callReturned(i) ==
    /\ calls[i].pc = "done"
    /\ calls' = [calls EXCEPT ![i] = IdleCall]
    /\ UNCHANGED <<hashes, db, clean, failures, outsideRace>>

NextWriteRace ==
    \/ \E i \in 1..MaxCalls, data \in Contents : writeIfChangedCompare(i, StoreTriple, data)
    \/ \E i \in 1..MaxCalls, data \in Contents : writeIfChangedWrite(i, StoreTriple, data)
    \/ \E i \in 1..MaxCalls : writeIfChangedSetHash(i)
    \/ \E i \in 1..MaxCalls : Persist(i, makeKey(StoreTriple[1], StoreTriple[2], StoreTriple[3]))
    \/ \E i \in 1..MaxCalls : callReturned(i)

SpecWriteRace == Init /\ [][NextWriteRace]_vars

SpecStoreFailure == Init /\ [][NextStoreFailure]_vars

SpecAuth == Init /\ [][NextAuth]_vars

SpecRace == Init /\ [][NextRace]_vars

SpecNotif == Init /\ [][NextNotif]_vars

SpecBackoff == Init /\ [][NextBackoff]_vars

\* every goroutine that can take a step is scheduled, and a timer that is
\* running fires
SpecBackoffFair ==
    /\ SpecBackoff
    /\ \A r \in 1..MaxConns : WF_vars(readFailed(r))
    /\ \A l \in 1..MaxLoops :
          /\ WF_vars(reconnectLoopTop(l))
          /\ WF_vars(reconnectLoopStopped(l))
          /\ WF_vars(reconnectLoopWake(l))
          /\ WF_vars(reconnectLoopClose(l))
          /\ WF_vars(\E ok \in BOOLEAN : reconnectLoopConnect(l, ok, MaxDelays))
          /\ WF_vars(reconnectLoopSuccess(l))

SpecReconnect == Init /\ [][NextReconnect]_vars

SpecReaders == Init /\ [][NextReaders]_vars

\* the fingerprint store is empty when the monitoring of sessions is observed
InitMonitoring == Init /\ db = <<>>

SpecMonitor == InitMonitoring /\ [][NextMonitor]_vars

SpecCallback == InitMonitoring /\ [][NextCallback]_vars

SpecAppDisconnect == InitMonitoring /\ [][NextAppDisconnect]_vars

SpecChannel == Init /\ [][NextChannel]_vars

SpecNaming == InitMonitoring /\ [][NextNaming]_vars

SpecTeardown == InitMonitoring /\ [][NextTeardown]_vars

\* the teardown call and the two loops are scheduled whenever they can run
SpecTeardownFair ==
    /\ SpecTeardown
    /\ WF_vars(teardownStopMonitor) /\ WF_vars(teardownStopPolling)
    /\ WF_vars(teardownPollWait) /\ WF_vars(teardownCancel) /\ WF_vars(teardownAuthWait)
    /\ WF_vars(teardownConnectionState) /\ WF_vars(teardownCleanup)
    /\ WF_vars(pollFallbackCallback) /\ WF_vars(pollLoopExit)
    /\ WF_vars(refreshLoopConnectionState) /\ WF_vars(refreshLoopExit)

\* every goroutine that can take a step is scheduled
SpecCallbackFair ==
    /\ SpecCallback
    /\ \A g \in 1..MaxGoroutines :
          /\ WF_vars(Lock(g))
          /\ WF_vars(RLock(g))
          /\ WF_vars(lockedBody(g))
          /\ WF_vars(rlockedBody(g))

(***************************************************************************)
(* Properties of the submission reconciler, checked under SpecSubmit       *)
(***************************************************************************)
\* the attempt validated a file (year and bytes were read from it)
Validated(a) == a.year # 0
Returned(a) == Logged(a, "return")
SameInput(a, b) ==
    /\ a.srv = b.srv /\ a.sess = b.sess /\ a.year = b.year /\ a.data = b.data
HasEntry(a, op, val) == \E k \in 1..Len(a.log) : a.log[k].op = op /\ a.log[k].val = val
\* what the handler did: client lookup, server calls, tracker write, return
HandlerLog(a) ==
    SelectSeq(a.log, LAMBDA e : e.op \in {"lookup", "GetLatestTurn", "SubmitTurn",
                                          "SetHash", "return"})
\* the kinds of the events the attempt emitted to the UI, in order
UIEvents(a) ==
    LET ev == SelectSeq(a.log, LAMBDA e : e.op \in {"order:submitted", "order:error",
                                                    "order:conflict"})
    IN  [k \in 1..Len(ev) |-> ev[k].op]
\* the attempts that wrote a fingerprint for the key of a
Writers(a) ==
    {j \in Attempts : /\ Logged(attempts[j], "SetHash")
                      /\ attempts[j].srv = a.srv /\ attempts[j].sess = a.sess
                      /\ attempts[j].year = a.year}
\* an earlier run of the program uploaded content with hash h for the key
PriorHas(srv, sess, year, h) ==
    /\ <<srv, sess, year>> = <<PriorUpload.srv, PriorUpload.sess, PriorUpload.year>>
    /\ h = ComputeHash(PriorUpload.data)

\* C1: the submit handler classifies an order file only from the fingerprint
\* stored for (connection, session, year): none -> NewUpload and the apply
\* step runs, equal to the hash of the bytes -> Skip, different -> Conflict;
\* fingerprints of other years play no part.
C1_Classification ==
    \A i \in Attempts :
        LET a == attempts[i]
            h == ComputeHash(a.data)
        IN  /\ (Validated(a) /\ a.pc \notin {"hadHash", "getHash"}) => a.class # "none"
            /\ a.class # "none" =>
                /\ a.fpAtRead = <<>> =>
                      a.class = "NewUpload" /\ (a.pc = "lookup" \/ Logged(a, "lookup"))
                /\ (a.fpAtRead # <<>> /\ a.fpAtRead = h) => a.class = "Skip"
                /\ (a.fpAtRead # <<>> /\ a.fpAtRead # h) => a.class = "Conflict"

\* a new year with different bytes is a NewUpload although another year of
\* the same session holds a fingerprint of other content
C1_Witness ==
    \E i \in Attempts :
        LET a == attempts[i]
        IN  /\ a.class = "NewUpload" /\ Logged(a, "lookup")
            /\ \E y \in Years \ {a.year} :
                  fingerprints[<<a.srv, a.sess, y>>] \notin {<<>>, ComputeHash(a.data)}

\* C2: an attempt classified Skip or Conflict makes no server call and
\* writes no fingerprint (every stored fingerprint was written by a NewUpload
\* attempt or by an earlier run); Skip returns nil, Conflict returns an error.
C2_SkipConflictFrame ==
    /\ \A i \in Attempts :
          LET a == attempts[i]
          IN  a.class \in {"Skip", "Conflict"} =>
                /\ ~Logged(a, "lookup") /\ ~Logged(a, "GetLatestTurn")
                /\ ~Logged(a, "SubmitTurn") /\ ~Logged(a, "SetHash")
                /\ a.pc # "conflict" => Returned(a)
                /\ Returned(a) => (a.class = "Skip" <=> a.err = "nil")
    /\ \A store \in {hashes, db} : \A key \in DOMAIN store :
          \/ key \in DOMAIN PriorBucket /\ store[key] = PriorBucket[key]
          \/ \E j \in Attempts :
                LET b == attempts[j]
                IN  /\ b.class = "NewUpload" /\ Logged(b, "SetHash")
                    /\ key = makeKey(b.srv, b.sess, OrderKey(b.year))
                    /\ store[key] = ComputeHash(b.data)

C2_Witness ==
    \E i \in Attempts :
        LET a == attempts[i]
        IN  a.class = "Conflict" /\ a.pc = "done" /\ a.err # "nil" /\ hashes # <<>>

\* C3: a fingerprint is stored under order:<year> only if a submit-turn call
\* for that session and year with content of that hash succeeded; a failed
\* submit returns the error and writes nothing; a successful one writes
\* hash(bytes), which is what the store holds unless another attempt wrote
\* the same key.
C3_FingerprintOnlyAfterSuccess ==
    /\ \A srv \in Servers, sess \in Sessions, year \in Years :
          LET h == GetHash(hashes, srv, sess, OrderKey(year))
          IN  h # <<>> =>
                \/ PriorHas(srv, sess, year, h)
                \/ \E j \in Attempts : \E k \in 1..Len(attempts[j].log) :
                      LET e == attempts[j].log[k]
                      IN  /\ e.op = "SubmitTurn" /\ e.val = 1
                          /\ e.srv = srv /\ e.sess = sess /\ e.year = year /\ e.hash = h
    /\ \A i \in Attempts :
          LET a == attempts[i]
          IN  /\ HasEntry(a, "SubmitTurn", 0) =>
                    ~Logged(a, "SetHash") /\ Returned(a) /\ a.err = "submitFailed"
              /\ (HasEntry(a, "SubmitTurn", 1) /\ a.pc # "setHash") =>
                    /\ Logged(a, "SetHash")
                    /\ Returned(a) => a.err = "nil"
                    /\ Writers(a) = {i} =>
                          GetHash(hashes, a.srv, a.sess, OrderKey(a.year)) = ComputeHash(a.data)

\* a failed submit left the key absent, a second attempt with the same bytes
\* was classified NewUpload again, succeeded and stored the hash
C3_Witness ==
    \E i, j \in Attempts :
        LET a == attempts[i]
            b == attempts[j]
        IN  /\ i # j /\ SameInput(a, b)
            /\ HasEntry(a, "SubmitTurn", 0) /\ a.pc = "done"
            /\ b.class = "NewUpload" /\ HasEntry(b, "SubmitTurn", 1) /\ b.pc = "done"
            /\ GetHash(hashes, b.srv, b.sess, OrderKey(b.year)) = ComputeHash(b.data)

\* C4: a NewUpload whose year differs from the server's latest year, whose
\* latest-year query fails (answer 0), or whose connection has no client,
\* returns an error, never calls submit-turn and stores no fingerprint.
C4_YearMismatchNoUpload ==
    \A i \in Attempts :
        LET a == attempts[i]
        IN  /\ Logged(a, "lookup") => a.class = "NewUpload"
            /\ (\E k \in 1..Len(a.log) :
                    a.log[k].op = "GetLatestTurn" /\ a.log[k].val # a.year) =>
                  /\ Returned(a) /\ a.err # "nil"
                  /\ ~Logged(a, "SubmitTurn") /\ ~Logged(a, "SetHash")
            /\ HasEntry(a, "lookup", 0) =>
                  /\ Returned(a) /\ a.err # "nil"
                  /\ ~Logged(a, "GetLatestTurn")
                  /\ ~Logged(a, "SubmitTurn") /\ ~Logged(a, "SetHash")
            /\ Logged(a, "SubmitTurn") => HasEntry(a, "GetLatestTurn", a.year)

C4_Witness ==
    \E i \in Attempts :
        LET a == attempts[i]
        IN  /\ a.pc = "done" /\ a.err = "yearMismatch"
            /\ \E y \in Years \ {a.year} : HasEntry(a, "GetLatestTurn", y)

\* C5 (as claimed): two attempts for the same (connection, session, year)
\* with identical bytes never both get a submit-turn call through to the
\* server.
C5_NoDoubleSubmit ==
    \A i, j \in Attempts :
        (i # j /\ Validated(attempts[i]) /\ SameInput(attempts[i], attempts[j])) =>
            ~(HasEntry(attempts[i], "SubmitTurn", 1) /\ HasEntry(attempts[j], "SubmitTurn", 1))

\* C6 (as claimed): a watcher attempt classified Conflict, with the UI alive,
\* has reported order:conflict with its session and year, and has not also
\* reported order:error.
C6_ConflictNotGenericError ==
    \A i \in Attempts :
        LET a == attempts[i]
        IN  (a.origin = "watcher" /\ a.class = "Conflict" /\ a.pc = "done" /\ ~shuttingDown) =>
                /\ \E k \in 1..Len(a.log) :
                      /\ a.log[k].op = "order:conflict"
                      /\ a.log[k].sess = a.sess /\ a.log[k].year = a.year
                /\ ~Logged(a, "order:error")

\* a finished live detection and a finished rescan of the same file
RescanPair(a, b) ==
    /\ a.origin = "watcher" /\ b.origin = "rescan"
    /\ a.pc = "done" /\ b.pc = "done"
    /\ Validated(a) /\ SameInput(a, b)
    /\ Returned(a) /\ Returned(b) /\ a.storedHash = b.storedHash

\* the two handler runs took the same step wherever they had seen the same
\* answers (of the tracker, the client map and the server) so far
SameHandling(a, b) ==
    LET A == HandlerLog(a)
        B == HandlerLog(b)
        n == IF Len(A) < Len(B) THEN Len(A) ELSE Len(B)
    IN  /\ a.class = b.class
        /\ \A k \in 1..n :
              (\A j \in 1..(k - 1) : A[j] = B[j]) =>
                  /\ A[k].op = B[k].op
                  /\ A[k].val = B[k].val => A[k] = B[k]
        /\ (\A j \in 1..n : A[j] = B[j]) => Len(A) = Len(B)

\* both runs saw the same answers, the coordinator's callback was invoked
\* and the application was not shutting down
SameRun(a, b) ==
    /\ RescanPair(a, b) /\ HandlerLog(a) = HandlerLog(b)
    /\ Logged(a, "callback") /\ ~shuttingDown

\* C7 (as claimed): the rescan of a file yields the same classification,
\* server calls, fingerprint update and UI outcome as its live detection.
C7_RescanSameAsWatcher ==
    \A i, j \in Attempts :
        LET a == attempts[i]
            b == attempts[j]
        IN  /\ RescanPair(a, b) => SameHandling(a, b)
            /\ SameRun(a, b) => UIEvents(a) = UIEvents(b)

\* C7 (amended): every rescan of a valid submitted file runs the handler,
\* with the same classification, server calls and fingerprint update as the
\* live detection; the UI outcome differs: the watcher path reports
\* order:submitted whenever the handler returns nil and order:error whenever
\* it returns an error, the rescan reports order:submitted only if the
\* handler returned nil and no fingerprint was stored when the rescan
\* looked first, and nothing on an error (but the handler's order:conflict).
C7_RescanSameHandling ==
    /\ \A j \in Attempts :
          LET b == attempts[j]
          IN  (b.origin = "rescan" /\ Validated(b) /\ b.pc = "done") => Returned(b)
    /\ \A i, j \in Attempts :
          LET a == attempts[i]
              b == attempts[j]
          IN  /\ RescanPair(a, b) => SameHandling(a, b)
              /\ SameRun(a, b) =>
                    /\ UIEvents(a) =
                          CASE a.err = "nil" -> <<"order:submitted">>
                            [] a.err = "conflict" -> <<"order:conflict", "order:error">>
                            [] OTHER -> <<"order:error">>
                    /\ UIEvents(b) =
                          CASE b.err = "nil" /\ ~b.hadHashBefore -> <<"order:submitted">>
                            [] b.err = "conflict" -> <<"order:conflict">>
                            [] OTHER -> <<>>

\* a live detection and a rescan of an already uploaded file: both Skip, the
\* watcher path reports order:submitted, the rescan reports nothing
C7_Witness ==
    \E i, j \in Attempts :
        LET a == attempts[i]
            b == attempts[j]
        IN  /\ SameRun(a, b) /\ a.class = "Skip" /\ b.hadHashBefore
            /\ UIEvents(a) # UIEvents(b)

\* C8: for a watcher's submission attempt the outcome callback, when set, is
\* invoked exactly once, after the submit function returned, with the
\* attempt's session and year and success = (error is nil).
C8_CallbackExactlyOnce ==
    \A i \in Attempts :
        LET a == attempts[i]
            cb == {k \in 1..Len(a.log) : a.log[k].op = "callback"}
            rt == {k \in 1..Len(a.log) : a.log[k].op = "return"}
        IN  /\ Cardinality(cb) <= 1 /\ Cardinality(rt) <= 1
            /\ cb # {} => a.origin = "watcher"
            /\ \A k \in cb : \E r \in rt :
                  /\ r < k
                  /\ a.log[k].val = (IF a.log[r].err = "nil" THEN 1 ELSE 0)
                  /\ a.log[k].sess = a.sess /\ a.log[k].year = a.year
            /\ (a.origin = "watcher" /\ a.pc = "done" /\ Returned(a)) =>
                  Cardinality(cb) + Count(a, "nilCallback") = 1
            /\ (a.origin = "watcher" /\ a.pc # "done") => cb = {}

C8_Witness ==
    \E i \in Attempts :
        LET a == attempts[i]
        IN  a.pc = "done" /\ HasEntry(a, "callback", 0) /\ a.err = "submitFailed"

(***************************************************************************)
(* Properties of the watch coordinator, checked under SpecCoord            *)
(***************************************************************************)
\* C9: the registry holds exactly one active watcher for each id whose last
\* successful watch was not followed by unwatch or stopAll, and no watcher
\* of any other id is active; a failed watch returns an error and leaves the
\* registry as it was; listWatchedSessions is the set of registered ids,
\* empty after stopAll.
C9_SingleWatch ==
    /\ \A id \in WatchIds :
          LET act == {w \in DOMAIN pool : pool[w].session = id /\ Active(w)}
          IN  IF id \in wanted
              THEN id \in DOMAIN registry /\ act = {registry[id]}
              ELSE id \notin DOMAIN registry /\ act = {}
    /\ WatchedSessions = wanted
    /\ (watchRet.op = "Watch" /\ watchRet.ret # "nil") => registry = watchRet.before
    /\ (watchRet.op = "Watch" /\ watchRet.ret = "nil") => watchRet.id \in WatchedSessions
    /\ (watchRet.op = "Watch" /\ watchRet.id \in DOMAIN watchRet.before) =>
          registry = watchRet.before
    /\ watchRet.op = "Stop" => WatchedSessions = {}

\* an id was watched, unwatched and watched again: its first watcher is
\* stopped, a new one is registered, and a watch of it failed in between
C9_Witness ==
    \E id \in WatchIds :
        /\ id \in DOMAIN registry
        /\ \E w \in DOMAIN pool :
              pool[w].session = id /\ pool[w].stopped /\ w < registry[id]
        /\ \E w \in DOMAIN pool : pool[w].session = id /\ ~pool[w].started
        /\ watchRet.op = "Watch" /\ watchRet.id = id /\ watchRet.id \in DOMAIN watchRet.before

(***************************************************************************)
(* Properties of the debounce, checked under SpecDebounce                  *)
(***************************************************************************)
CyclesOf(K) == {c \in DOMAIN cycles : cycles[c].timer \in K}

\* the timers i..j belong to one burst: each event after the first arrived
\* while the timer of the event before it was still pending
Burst(i, j) == \A k \in (i + 1)..j : timers[k].early

\* C10: within one watcher a matching event cancels the pending debounce timer
\* and starts a new one, so only the timer of the last event can be pending;
\* a burst of events that each arrive before the pending timer fires runs at
\* most one validate/submit cycle; two events separated by more than the
\* debounce delay run two cycles (in a watcher that was not stopped, once the
\* second timer's deadline has passed without a further event).
C10_Debounce ==
    /\ debounceTimer = Len(timers)
    /\ \A k \in DOMAIN timers : timers[k].state = "pending" => k = debounceTimer
    /\ \A i \in DOMAIN timers : \A j \in i..Len(timers) :
          Burst(i, j) => Cardinality(CyclesOf(i..j)) <= 1
    /\ \A k \in DOMAIN timers :
          (/\ k < Len(timers)
           /\ timers[k + 1].created - timers[k].created > DebounceTicks
           /\ (k + 1 < Len(timers) => timers[k + 2].created > timers[k + 1].deadline)
           /\ now > timers[k + 1].deadline
           /\ ~stopped)
          => Cardinality(CyclesOf({k})) = 1 /\ Cardinality(CyclesOf({k + 1})) = 1

\* a burst of two events ran one cycle, and a third event more than the delay
\* after the second ran another
C10_Witness ==
    /\ Len(timers) = 3
    /\ ~stopped
    /\ timers[2].early /\ ~timers[3].early
    /\ timers[1].state = "stopped"
    /\ timers[3].created - timers[2].created > DebounceTicks
    /\ now > timers[3].deadline
    /\ Len(cycles) = 2

\* the event is one handleEvent acts on: a write or create of the seat's file
Matching(e) == ("Write" \in e.op \/ "Create" \in e.op) /\ e.name = <<"game.x", session.PlayerOrder + 1>>

\* C11: an event whose base name is not exactly game.x<seat+1>, or whose kind
\* is neither write nor create, starts no debounce timer and leads to no
\* validator or submit call: handling it leaves the timers and the cycles as
\* they were, and every timer and every cycle is for the seat's own file.
C11_WatcherScoping ==
    /\ [](/\ \A k \in DOMAIN timers : timers[k].name = <<"game.x", session.PlayerOrder + 1>>
          /\ \A c \in DOMAIN cycles : cycles[c].file = <<"game.x", session.PlayerOrder + 1>>
          /\ Len(cycles) <= Len(timers))
    /\ [][(lastEvent' # lastEvent /\ ~Matching(lastEvent'))
            => (timers' = timers /\ debounceTimer' = debounceTimer /\ cycles' = cycles)]_vars

\* another seat's file was written while a timer of the own file was pending,
\* after an earlier cycle
C11_Witness ==
    /\ lastEvent = [op |-> {"Write"}, name |-> <<"game.x", 2>>]
    /\ Len(timers) = 2 /\ timers[2].state = "pending"
    /\ Len(cycles) = 1

(***************************************************************************)
(* Properties of the fingerprint store, checked under SpecTracker          *)
(***************************************************************************)
\* C12: after set(c, s, k, hash(data)), hasChanged(c, s, k, data) is false and
\* hasChanged with data of another hash is true; for a key that was never set
\* or was forgotten, hasChanged is true for every data.
C12_FingerprintIdempotence ==
    /\ \A t \in Triples, d \in Contents :
          HasChanged(hashes, t[1], t[2], t[3], d) =
              (tracked[t] = <<>> \/ tracked[t] # ComputeHash(d))
    /\ lastCall.op = "SetHash" =>
          \A d \in Contents :
              HasChanged(hashes, lastCall.t[1], lastCall.t[2], lastCall.t[3], d)
                  = (d # lastCall.data)

\* a fingerprint was just set while another key, set before, has been forgotten
C12_Witness ==
    /\ lastCall.op = "SetHash"
    /\ \E u \in Triples : u # lastCall.t /\ ~pure[u] /\ tracked[u] = <<>>
    /\ ~HasChanged(hashes, lastCall.t[1], lastCall.t[2], lastCall.t[3], lastCall.data)

\* the step is a call of WriteFileIfChanged in an unbroken series of such
\* calls on the key of the call, none of which met an I/O error
SeriesCall == lastCall' # lastCall /\ lastCall'.op = "WriteFileIfChanged" /\ pure'[lastCall'.t]

\* C13: in a sequential series of writeIfChanged calls on one key and target
\* without I/O errors, a call writes the file (and returns written = true)
\* exactly if the hash of its data differs from the fingerprint the previous
\* call left (or none is stored); after every call the file holds the data
\* of the most recent call.
C13_WriteSkip ==
    /\ [](\A t \in Triples :
            (pure[t] /\ tracked[t] # <<>>) => tracked[t] = ComputeHash(files[t[3]]))
    /\ [][SeriesCall =>
            /\ lastCall'.ok
            /\ lastCall'.written = (tracked[lastCall'.t] # ComputeHash(lastCall'.data))
            /\ lastCall'.written = (files' # files)
            /\ files'[lastCall'.t[3]] = lastCall'.data]_vars

\* the second of two calls with the same data: nothing written, the file
\* holds the data
C13_Witness ==
    /\ lastCall.op = "WriteFileIfChanged" /\ pure[lastCall.t]
    /\ ~lastCall.written /\ lastCall.ok
    /\ files[lastCall.t[3]] = lastCall.data

\* C14: fingerprints are scoped by (connection, session, key): what get
\* returns for a triple is what was last set for exactly that triple, and
\* nothing once that triple, its session or its connection was forgotten;
\* set and forget under another session or connection never change it, also
\* when one identity is a prefix of another.
C14_ScopedFingerprints ==
    /\ \A t \in Triples : GetHash(hashes, t[1], t[2], t[3]) = tracked[t]
    /\ lastCall.op = "ForgetSession" =>
          \A t \in Triples :
              (t[1] = lastCall.t[1] /\ t[2] = lastCall.t[2])
                  => GetHash(hashes, t[1], t[2], t[3]) = <<>>
    /\ lastCall.op = "ForgetServer" =>
          \A t \in Triples :
              t[1] = lastCall.t[1] => GetHash(hashes, t[1], t[2], t[3]) = <<>>

\* session A of connection s was forgotten; session AB of s and session A of
\* connection s1 keep their fingerprints
C14_Witness ==
    /\ lastCall.op = "ForgetSession" /\ lastCall.t = <<<<"s">>, <<"A">>>>
    /\ GetHash(hashes, <<"s">>, <<"A", "B">>, <<"f">>) = ComputeHash("B1")
    /\ GetHash(hashes, <<"s", "1">>, <<"A">>, <<"f">>) = ComputeHash("B2")
    /\ ~pure[<<<<"s">>, <<"A">>, <<"f">>>>]

\* C15: after set and forget operations whose durable writes all succeeded,
\* closing the store and opening a new one on the same database gives the
\* same get result for every key as before.
C15_Persistence ==
    /\ [](clean => \A t \in Triples : GetHash(db, t[1], t[2], t[3]) = tracked[t])
    /\ [][(lastCall'.op = "NewTracker" /\ clean) => hashes' = hashes]_vars

\* the store was reopened without any failure before, holding a fingerprint
\* for one key and none for a key that was set and forgotten
C15_Witness ==
    /\ lastCall.op = "NewTracker" /\ failures = 0
    /\ \E t, u \in Triples :
          /\ GetHash(hashes, t[1], t[2], t[3]) # <<>>
          /\ ~pure[u] /\ GetHash(hashes, u[1], u[2], u[3]) = <<>>

(***************************************************************************)
(* Durable-write failures, checked under SpecStoreFailure                  *)
(***************************************************************************)
\* the attempt's SetHash could not persist the fingerprint
PersistFailed(a) == HasEntry(a, "persist", 0)

\* C16: when the durable write inside set fails, set returns the error, the
\* in-memory fingerprint is updated and stays so (a following get returns
\* the new hash) and the bucket is as before; writeIfChanged and the submit
\* handler go on to report success: written = true with no error, and a nil
\* return that the watcher's callback reports as a success.
C16_PersistFailureNotFatal ==
    /\ [](lastCall.op = "SetHash" =>
            GetHash(hashes, lastCall.t[1], lastCall.t[2], lastCall.t[3])
                = ComputeHash(lastCall.data))
    /\ [](\A i \in Attempts :
            LET a == attempts[i]
            IN  PersistFailed(a) =>
                  /\ a.class = "NewUpload" /\ a.err = "nil" /\ Returned(a)
                  /\ HasEntry(a, "SubmitTurn", 1)
                  /\ ~HasEntry(a, "callback", 0)
                  /\ ~Logged(a, "order:error"))
    /\ [][(lastCall'.op = "SetHash" /\ failures' > failures) =>
            /\ ~lastCall'.ok
            /\ db' = db
            /\ hashes' = MapSet(hashes, makeKey(lastCall'.t[1], lastCall'.t[2], lastCall'.t[3]),
                                ComputeHash(lastCall'.data))]_vars
    /\ [][(lastCall'.op = "WriteFileIfChanged" /\ failures' > failures /\ hashes' # hashes) =>
            /\ lastCall'.ok /\ lastCall'.written
            /\ db' = db
            /\ files'[lastCall'.t[3]] = lastCall'.data
            /\ GetHash(hashes', lastCall'.t[1], lastCall'.t[2], lastCall'.t[3])
                  = ComputeHash(lastCall'.data)]_vars
    /\ [][\A i \in Attempts :
            (PersistFailed(attempts'[i]) /\ ~PersistFailed(attempts[i])) =>
               /\ db' = db
               /\ GetHash(hashes', attempts[i].srv, attempts[i].sess, OrderKey(attempts[i].year))
                     = attempts[i].currentHash]_vars

\* an upload whose fingerprint could not be persisted was reported to the UI
\* as submitted, and a set whose durable write failed left the new hash in
\* memory and the old state in the bucket
C16_Witness ==
    /\ PersistFailed(attempts[1]) /\ HasEntry(attempts[1], "order:submitted", 0)
    /\ attempts[1].pc = "done"
    /\ lastCall.op = "SetHash" /\ ~lastCall.ok
    /\ GetHash(hashes, lastCall.t[1], lastCall.t[2], lastCall.t[3]) = ComputeHash(lastCall.data)
    /\ GetHash(db, lastCall.t[1], lastCall.t[2], lastCall.t[3]) # ComputeHash(lastCall.data)

\* positions of the history that hold an entry of one kind
TraceOf(ev) == {i \in DOMAIN trace : trace[i].ev = ev}

\* C17: a Connect that returns nil has left, immediately before its return,
\* the token notification carrying the token Authenticate obtained and then
\* the connection-established notification, and the manager is then
\* connected; until then no token notification is made and no refresh loop
\* runs.  A Connect whose authentication or user-info request failed returns
\* that error, has reported it through notifyConnectionState(false, err)
\* before returning, leaves the manager not connected, makes no token
\* notification and starts no refresh loop.
C17_ConnectNotifications ==
    /\ \A r \in TraceOf("ConnectReturn") :
          IF trace[r].err = ""
          THEN /\ r > 3
               /\ trace[r - 2].ev = "TokenRefreshed"
               /\ trace[r - 2].tok = 1
               /\ trace[r - 1].ev = "ConnectionState"
               /\ trace[r - 1].conn
               /\ trace[r - 1].err = ""
               /\ \A i \in 1..(r - 3) : trace[i].ev = "Connect"
               /\ connectCall = "connected"
          ELSE /\ trace[r].err \in {"authentication", "userinfo"}
               /\ trace[r - 1].ev = "ConnectionState"
               /\ ~trace[r - 1].conn
               /\ trace[r - 1].err = trace[r].err
               /\ connectCall = "failed"
    /\ connectCall \in {"idle", "authenticated", "failed"} =>
          /\ ~connected
          /\ ~userInfo
          /\ refreshLoop = "none"
          /\ TraceOf("TokenRefreshed") = {}
          /\ TraceOf("RefreshToken") = {}
    /\ connectCall = "authenticated" => token = 1
    /\ connectCall \in {"connected", "failed"} <=> TraceOf("ConnectReturn") # {}

\* Connect has returned nil with both callbacks set, and the refresh loop runs
C17_Witness ==
    /\ connectCall = "connected"
    /\ disconnectCall = "idle"
    /\ refreshLoop = "waiting"
    /\ connected
    /\ Len(trace) = 4
    /\ trace[2].cb
    /\ trace[3].cb

\* the notifications by which the refresh loop reports a failed refresh
RefreshFailures ==
    {i \in TraceOf("ConnectionState") : trace[i].err \in {"refresh", "canceled"}}

\* C18: when a refresh made on a tick of the loop fails, the loop reports it
\* through notifyConnectionState(false, err) exactly once, the manager is not
\* connected from then on, the loop has terminated, and no refresh request
\* and no token notification follows.
C18_RefreshFailureStopsLoop ==
    /\ Cardinality(RefreshFailures) <= 1
    /\ \A i \in RefreshFailures :
          /\ ~trace[i].conn
          /\ \E r \in TraceOf("RefreshToken") :
                /\ r < i
                /\ \A j \in (r + 1)..(i - 1) : trace[j].ev = "Disconnect"
          /\ \A j \in (i + 1)..Len(trace) :
                trace[j].ev \notin {"RefreshToken", "TokenRefreshed"}
          /\ ~connected
          /\ refreshLoop = "exited"
    /\ \A r \in TraceOf("RefreshToken") :
          \/ /\ refreshLoop \in {"refreshing", "refreshingCancelled"}
             /\ \A j \in (r + 1)..Len(trace) : trace[j].ev = "Disconnect"
          \/ \E j \in (r + 1)..Len(trace) :
                /\ \/ j \in RefreshFailures
                   \/ trace[j].ev = "TokenRefreshed" /\ trace[j].tok = trace[r].tok + 1
                /\ \A k \in (r + 1)..(j - 1) : trace[k].ev = "Disconnect"

\* a refresh failed while the manager was in use and the callback was set, and
\* the time of the next tick has come without a further request
C18_Witness ==
    /\ RefreshFailures # {}
    /\ \A i \in RefreshFailures : trace[i].cb /\ trace[i].err = "refresh"
    /\ disconnectCall = "idle"
    /\ clock >= nextTick
    /\ trace[Len(trace)].ev = "ConnectionState"
    /\ TraceOf("TokenRefreshed") # {}

\* C19: Disconnect returns only when the refresh loop has exited: once it
\* has returned, its own notifyConnectionState(false, nil) is the last
\* notification, so no token notification, no connection-lost notification
\* with an error and no refresh request follows its return.
C19_DisconnectWaitsForLoop ==
    /\ Cardinality(TraceOf("DisconnectReturn")) <= 1
    /\ disconnectCall = "returned" <=> TraceOf("DisconnectReturn") # {}
    /\ \A d \in TraceOf("DisconnectReturn") :
          /\ d = Len(trace)
          /\ trace[d - 1].ev = "ConnectionState"
          /\ ~trace[d - 1].conn
          /\ trace[d - 1].err = ""
          /\ \A i \in RefreshFailures : i < d - 1
          /\ refreshLoop \in {"none", "exited"}
          /\ cancelled

\* Disconnect was called during a refresh, the refreshed token was still
\* notified before Disconnect returned, and the time of the next tick has
\* come since
C19_Witness ==
    /\ disconnectCall = "returned"
    /\ \E c \in TraceOf("Disconnect") :
          /\ trace[c - 1].ev = "RefreshToken"
          /\ trace[c + 1].ev = "TokenRefreshed"
          /\ trace[c + 1].cb
    /\ trace[Len(trace) - 1].cb
    /\ clock >= nextTick

\* C20: once Disconnect has returned, GetToken returns the empty token,
\* IsTokenValid is false, GetUserInfo returns nothing and IsConnected is
\* false.  Disconnect resets connected and userInfo only and never calls
\* Client.SetToken, so the token parts are violated after any successful
\* authentication.
C20_DisconnectClears ==
    disconnectCall = "returned" =>
        /\ GetToken = 0
        /\ ~IsTokenValid
        /\ ~GetUserInfo
        /\ ~IsConnected

\* the refresh loop of a connected manager is at a tick of its ticker
AtRefreshTick == refreshLoop = "waiting" /\ connected /\ clock >= nextTick

\* the refresh requests made with one token
RequestsWith(t) == {i \in TraceOf("RefreshToken") : trace[i].tok = t}

C25_NoCallAfterStop == \A c \in DOMAIN cycles : cycles[c].stops = 0

\* the step runs a cycle whose validator returned an error
FailedCycle == Len(cycles') = Len(cycles) + 1 /\ ~cycles'[Len(cycles')].valid

\* C26: when the validator returns an error, the watcher does not call the
\* submit function (which is what invokes the outcome callback), changes no
\* fingerprint and stays as it was: not stopped by it, its event loop
\* running, its timers untouched.  The timer of a later matching event that
\* no further event superseded runs its own cycle once its deadline has
\* passed, if the watcher was not stopped.
C26_ValidationErrorSwallowed ==
    /\ [](/\ \A c \in DOMAIN cycles : cycles[c].submit = cycles[c].valid
          /\ \A c \in DOMAIN cycles :
                LET k == cycles[c].timer + 1
                IN  (/\ ~cycles[c].valid
                     /\ k \in DOMAIN timers
                     /\ now > timers[k].deadline
                     /\ (k < Len(timers) => timers[k + 1].created > timers[k].deadline)
                     /\ ~stopped)
                    => Cardinality(CyclesOf({k})) = 1)
    /\ [][FailedCycle =>
            /\ ~cycles'[Len(cycles')].submit
            /\ <<stopped, stopCh, loop, debounceTimer>>' = <<stopped, stopCh, loop, debounceTimer>>
            /\ <<hashes, db, fingerprints>>' = <<hashes, db, fingerprints>>
            /\ \A k \in DOMAIN timers :
                  k # cycles'[Len(cycles')].timer => timers'[k] = timers[k]]_vars

\* the validator rejected the file of a first cycle; an event that came
\* after it ran a second cycle, which validated and submitted
C26_Witness ==
    /\ Len(cycles) = 2
    /\ ~cycles[1].valid
    /\ cycles[2].valid /\ cycles[2].submit
    /\ timers[cycles[2].timer].created > cycles[1].at
    /\ ~stopped

\* C27: once every concurrent set and forget call has completed and no
\* durable write has failed, the in-memory map and the bucket hold the same
\* value, or both none, for every key.  The calls release t.mu before their
\* durable write, so two calls can reach the bucket in the opposite order
\* of their map updates.
C27_WriteThroughConsistent ==
    ((\A i \in 1..MaxCalls : calls[i].pc # "persist") /\ clean) =>
        /\ DOMAIN hashes = DOMAIN db
        /\ \A key \in DOMAIN hashes : hashes[key] = db[key]


(***************************************************************************)
(* Properties of the notification channel                                   *)
(***************************************************************************)
\* the reconnectLoop l leaves its current place only by returning
EndsWithoutAttempt(l) ==
    loops'[l] \in {loops[l], [loops[l] EXCEPT !.pc = "exited"]}

\* C22: the wait of a reconnectLoop before its k-th attempt is
\* min(5 s * 2^(k-1), 60 s): 5, 10, 20, 40, 60, 60, ...; a loop waiting on a
\* stop channel that has been closed returns without another attempt, and
\* so does a loop that finds m.connected set or no token at the top.
C22_Backoff ==
    /\ [](\A l \in DOMAIN loops : \A k \in DOMAIN loops[l].delays :
            /\ loops[l].delays[k] = Min(InitialBackoff * 2^(k - 1), MaxBackoff)
            /\ loops[l].delays[k] <= MaxBackoff
            /\ k > 1 => loops[l].delays[k] \in
                   {2 * loops[l].delays[k - 1], MaxBackoff})
    /\ [][\A l \in DOMAIN loops :
            /\ loops[l].pc = "waiting" /\ chans[loops[l].ch] = "closed"
                  => EndsWithoutAttempt(l)
            /\ loops[l].pc = "top" /\ (nm.connected \/ nm.token = 0)
                  => EndsWithoutAttempt(l)]_vars

\* a loop has made six attempts, the last two after a wait at the ceiling
C22_Witness ==
    \E l \in DOMAIN loops : loops[l].delays = <<5, 10, 20, 40, 60, 60>>


\* C23: once Manager.Disconnect has returned, none of the three callbacks
\* is invoked any more.
C23_NoCallbackAfterDisconnect == disconnectNotif = "returned" => late = {}

\* C24: at a poll tick with the connection down (closed by the server, broken,
\* or never replaced after a failed reconnect) and nothing left running that
\* could still report it, the poll-fallback callback is invoked.
C24_PollWhileDown ==
    lastPoll.ticked /\ ~lastPoll.up /\ lastPoll.quiet => lastPoll.called

\* the step in which readLoop r, after a read error, calls onError or returns
Failed(r) == readers[r].pc = "checked" /\ readers'[r].pc = "returning"

\* the error handler has not run in this step
HandlerNotCalled == UNCHANGED <<nm, chans, loops, lastChange, late>>

C29_NoErrorOnReconnect ==
    [][\A r \in DOMAIN readers :
          Failed(r) /\ readers[r].cause = "reconnectClosed" => HandlerNotCalled]_vars

\* C30: a readLoop that reads the server's close frame (normal closure or
\* going away) returns as on normal termination: it never reaches the error
\* path, and its steps leave the manager, the reconnectLoops and the
\* callbacks alone.
C30_CleanClose ==
    /\ [](\A r \in DOMAIN readers :
            readers[r].cause = "serverClosed" => readers[r].pc \in {"returning", "exited"})
    /\ [][\A r \in DOMAIN readers :
            /\ \/ readers[r].pc = "reading" /\ socks[readers[r].conn] = "serverClosed"
               \/ readers[r].cause = "serverClosed"
            /\ readers'[r] # readers[r]
            => HandlerNotCalled]_vars

\* a readLoop has returned after the server's close frame and no
\* reconnectLoop was ever started
C30_Witness ==
    /\ \E r \in DOMAIN readers :
          readers[r].cause = "serverClosed" /\ readers[r].pc = "exited"
    /\ loops = <<>>
    /\ lastChange = Change(TRUE)

(***************************************************************************)
(* Properties of the goroutines of one connection and of its teardown.     *)
(***************************************************************************)
\* the readLoop and reconnectLoop goroutines that have not returned
LiveReaders == {r \in DOMAIN readers : readers[r].pc # "exited"}

LiveLoops == {l \in DOMAIN loops : loops[l].pc # "exited"}

\* C31: at any time a notification channel has at most one readLoop that has
\* not returned and at most one reconnectLoop that has not returned.
C31_OneLoopEach == Cardinality(LiveReaders) <= 1 /\ Cardinality(LiveLoops) <= 1

\* two readLoops blocked in ReadMessage on the same connection
TwoReadersOneSocket ==
    \E r1, r2 \in DOMAIN readers :
        /\ r1 # r2
        /\ readers[r1].pc = "reading" /\ readers[r2].pc = "reading"
        /\ readers[r1].conn = readers[r2].conn
        /\ socks[readers[r1].conn] = "open"

\* a caller is blocked in stopReconnectLoop's reconnectWg.Wait
StopWaiting == reconnectCall.pc = "wait" \/ disconnectNotif = "wait"

\* the stop signal reconnectLoop l observes next is closed: the channel its
\* select waits on, or else the channel m.stopReconnect holds when it tests it
SeesStop(l) ==
    IF loops[l].pc = "waiting"
    THEN chans[loops[l].ch] = "closed"
    ELSE chans[nm.stopReconnect] = "closed"

\* C32: while Manager.Reconnect or Manager.Disconnect waits in
\* stopReconnectLoop, every reconnectLoop it waits for observes a closed stop
\* signal at its next check, so the wait ends without depending on the
\* server accepting a connection.
C32_StopCompletes == StopWaiting => \A l \in LiveLoops : SeesStop(l)

\* the caller is still blocked after the loop it waits for was refused by
\* the server and went back to wait on an open stop signal
StopWaitsForServer ==
    /\ StopWaiting
    /\ \E l \in LiveLoops :
          /\ loops[l].pc = "waiting"
          /\ chans[loops[l].ch] = "open"
          /\ loops[l].backoff > InitialBackoff

\* the checks that have reached startMonitoringSession
Monitoring == {i \in 1..MaxChecks : checks[i].pc \in {"monitor", "watch"} \/ checks[i].watched}

\* C33: a check calls startMonitoringSession only for a session that
\* GetSession returned as started with the local user as a ready player, and
\* no watcher is active for a session the player has quit, for a session whose
\* delete notification was handled, or once App.Disconnect has returned.
C33_WatcherLifetime ==
    /\ \A i \in Monitoring : checks[i].state = "started" /\ checks[i].ready
    /\ \A w \in DOMAIN pool :
          Active(w) => ended[pool[w].session] = "no" /\ appDisconnect # "returned"

\* a watcher started by a check that ran concurrently with a Disconnect
\* that has returned
WatcherAfterDisconnect ==
    /\ appDisconnect = "returned"
    /\ \A id \in WatchIds : ended[id] = "no"
    /\ \E w \in DOMAIN pool : Active(w)

\* a watcher left after QuitSession has unwatched the session
WatcherAfterQuit ==
    /\ appDisconnect = "idle"
    /\ \E w \in DOMAIN pool : Active(w) /\ ended[pool[w].session] = "quit"

\* C34: whenever submitWrapper invokes the onOrderSubmitted callback its
\* goroutine holds the coordinator's lock neither for reading nor for writing,
\* and a call of Watch, Unwatch, Stop or WatchedSessions made by the callback
\* returns.
C34_CallbackOutsideLock ==
    /\ [](\A g \in 1..MaxGoroutines : gs[g].pc = "callback" => ~Holds(g))
    /\ \A g \in 1..MaxGoroutines :
          (gs[g].wrapper /\ gs[g].pc \in {"Lock", "RLock"}) ~> (gs[g].pc = "done")

\* a callback has called Unwatch for a watched session, the only Unwatch among
\* the calls the goroutines made, and every call has returned
C34_Witness ==
    \E g \in 1..MaxGoroutines :
        /\ gs[g].wrapper /\ gs[g].pc = "done" /\ gs[g].op = "Unwatch"
        /\ watchRet.op = "Unwatch" /\ gs[g].id \in DOMAIN watchRet.before
        /\ \A h \in 1..MaxGoroutines : gs[h].pc = "done" /\ (h # g => gs[h].op # "Unwatch")

\* C35: while a teardown method is inside a manager's Stop or Disconnect it
\* does not hold the application-wide lock, and every teardown call that was
\* started returns.
C35_TeardownOutsideLock ==
    /\ [](InManagerCall => aMu = "free")
    /\ (teardown.pc # "idle") ~> (teardown.pc = "returned")

\* RemoveServer waits for its own lock in the connection-state callback
RemoveServerBlocked ==
    /\ teardown = [op |-> "RemoveServer", pc |-> "notify"]
    /\ aMu = "teardown"
    /\ pollLoop.pc = "exited" /\ refresher.pc = "exited"

\* every Disconnect call returns
DisconnectReturns == (teardown.op = "Disconnect") ~> (teardown.pc = "returned")


\* a readLoop that is reading an open connection or holds a frame it has read
Dispatching ==
    \E r \in DOMAIN readers :
        \/ readers[r].pc = "frame"
        \/ readers[r].pc = "reading" /\ socks[readers[r].conn] = "open"

\* C36: once App.Disconnect has returned the notification channel is not
\* connected (neither the manager's flag nor the client's is set and no
\* connection is open) and no readLoop is left that dispatches notifications
C36_DisconnectedAfterDisconnect ==
    appDisconnect = "returned" =>
        /\ ~nm.connected
        /\ ~nc.connected
        /\ ~SocketUp
        /\ ~Dispatching

\* the case of the claim: the channel was reconnected by a token refresh that
\* came after notifMgr.Disconnect, and App.Disconnect has returned with the
\* channel connected and a readLoop reading the new connection
ReconnectedAfterDisconnect ==
    /\ appDisconnect = "returned"
    /\ reconnectCall = [pc |-> "idle", n |-> 2, ok |-> FALSE]
    /\ nm.connected /\ nc.connected /\ SocketUp /\ Dispatching


\* the connection nc.conn is open and the readLoop started for it is running
CurrentReader ==
    /\ SocketUp
    /\ nc.conn \in DOMAIN readers
    /\ readers[nc.conn].pc \in {"reading", "frame"}
    /\ readers[nc.conn].conn = nc.conn

\* C37: while the client has a current connection that is open and whose
\* readLoop is running, its connected flag is set; in particular the return
\* of the readLoop of a replaced connection does not clear it
C37_ConnectedWhileReading == CurrentReader => nc.connected

\* the readLoop of connection r returns when r is no longer the client's
\* connection, and clears the flag that Connect set for the new one
StaleExitClearsFlag ==
    \E r \in DOMAIN readers :
        /\ readers[r].pc = "exited"
        /\ r # nc.conn
        /\ CurrentReader
        /\ ~nc.connected
        /\ reconnectCall.pc = "idle"
        /\ nm.connected

\* NotificationClient.Close, called by Manager.Disconnect while the client's
\* connection is open, closes it
CloseClosesSocket ==
    [][(disconnectNotif = "pollWait" /\ disconnectNotif' = "returned" /\ SocketUp)
           => ~SocketUp']_vars


\* readLoop r ends at its select, before a read, while the connection it
\* serves is open
GivesUp(r) ==
    /\ readers[r].pc \in {"top", "frame"}
    /\ readers'[r].pc = "returning"
    /\ socks[readers[r].conn] = "open"

\* C38: under any sequence of Connect, Reconnect and Disconnect calls no
\* Disconnect closes the done channel a second time, and no readLoop ends
\* while the connection it serves is open
C38_ReadLoopServesConnection ==
    /\ [](~panicked)
    /\ [][\A r \in DOMAIN readers : ~GivesUp(r)]_vars

\* Connect has reported success after an earlier Disconnect, the connection
\* is open, and no goroutine is left to read it
ConnectedWithoutReader ==
    /\ channelCall = [pc |-> "idle", n |-> 3]
    /\ reconnectCall.pc = "idle"
    /\ nm.connected
    /\ nc.conn # 0 /\ socks[nc.conn] = "open"
    /\ LiveReaders = {}
    /\ LiveLoops = {}
    /\ ~panicked

\* the done channel was closed twice
DoneClosedTwice == panicked



(***************************************************************************)
(* Properties of concurrent WriteFileIfChanged calls                       *)
(***************************************************************************)
\* no call is in progress and no write, to the file or the bucket, has failed
AllCompleted == (\A i \in 1..MaxCalls : calls[i].pc \in {"idle", "done"}) /\ failures = 0

\* C39: once every concurrent WriteFileIfChanged call on one key and file has
\* completed without an I/O error, the hash stored for the key is the hash of
\* the contents of the file
C39_FingerprintMatchesFile ==
    AllCompleted =>
        LET stored == GetHash(hashes, StoreTriple[1], StoreTriple[2], StoreTriple[3])
        IN  stored # <<>> => stored = ComputeHash(files[StoreTriple[3]])

\* a call made when no other call is in progress skips its write only if the
\* file holds its data
SkipOnlyWhenCurrent ==
    [][\A i \in 1..MaxCalls, data \in Contents :
          (AllCompleted /\ calls[i].pc = "idle" /\ calls'[i] = SkippedCall(ComputeHash(data)))
              => files[StoreTriple[3]] = data]_vars



(***************************************************************************)
(* Properties of the names of the local player's files                     *)
(***************************************************************************)
\* the seat of the local player
LocalSeat == roster[CHOOSE i \in 1..Len(roster) : roster[i].mine].PlayerOrder

\* C40: the order file name the watcher expects and the one the startup
\* rescan looks for carry the number of the turn file written for the local
\* player, which is the player's seat plus one
C40_SameFileNumber ==
    /\ turnFile # <<>> => Tail(turnFile) = Decimal(LocalSeat + 1)
    /\ watched # -1 => orderFileName(watched) = <<"game.x">> \o Decimal(LocalSeat + 1)
    /\ rescanned # <<>> => rescanned = <<"game.x">> \o Decimal(LocalSeat + 1)
    /\ (watched # -1 /\ turnFile # <<>>) => Tail(orderFileName(watched)) = Tail(turnFile)

\* when the roster lists the players by seat, the names agree
C40_SameNumberWhenListedBySeat ==
    (\A i \in 1..Len(roster) : roster[i].PlayerOrder = i - 1) => C40_SameFileNumber

\* the local player sits at seat 0 and is listed second: the watcher and the
\* rescan expect game.x2, the turn is written to game.m1
SeatDiffersFromPosition ==
    /\ Len(roster) = 2
    /\ roster[2].mine /\ roster[2].PlayerOrder = 0
    /\ watched = 1
    /\ rescanned = <<"game.x", "2">>
    /\ turnFile = <<"game.m", "1">>

====
